---------------------------- MODULE Spec2Model ----------------------------
(***************************************************************************)
(* A model of the forward proxy of proxy/handler.go: one connection handled*)
(* by HandleConnection, the client and the target it talks to, and the two *)
(* copy goroutines of the relay.                                           *)
(*                                                                         *)
(* Go strings and byte streams are sequences of one-character strings.     *)
(* The literals the proxy writes itself (status lines, error bodies) are   *)
(* kept as the format pieces of the Sprintf that produces them.            *)
(***************************************************************************)
EXTENDS Integers, Sequences, FiniteSets, TLC

(***************************************************************************)
(* Bounds of the model.                                                    *)
(***************************************************************************)
\* number of body / tunnel bytes the client sends after the header block
MaxBody == 2
\* number of bytes the target sends back
MaxResp == 2

(***************************************************************************)
(* Strings of the Go standard library, as far as the handler uses them.    *)
(***************************************************************************)
UpperChars == <<"A", "B", "C", "D", "E", "F", "G", "H", "I", "J", "K", "L", "M",
                "N", "O", "P", "Q", "R", "S", "T", "U", "V", "W", "X", "Y", "Z">>

LowerChars == <<"a", "b", "c", "d", "e", "f", "g", "h", "i", "j", "k", "l", "m",
                "n", "o", "p", "q", "r", "s", "t", "u", "v", "w", "x", "y", "z">>

Digits == {"0", "1", "2", "3", "4", "5", "6", "7", "8", "9"}

\* unicode.IsSpace on the ASCII range, as strings.Fields and TrimSpace use it
WhiteSpace == {" ", "\t", "\n", "\r", "\f"}

ToLowerCh(c) ==
    IF \E i \in 1..26 : UpperChars[i] = c
    THEN LowerChars[CHOOSE i \in 1..26 : UpperChars[i] = c]
    ELSE c

ToUpperCh(c) ==
    IF \E i \in 1..26 : LowerChars[i] = c
    THEN UpperChars[CHOOSE i \in 1..26 : LowerChars[i] = c]
    ELSE c

\* strings.ToLower
ToLower(s) == [i \in 1..Len(s) |-> ToLowerCh(s[i])]

\* strings.ToUpper
ToUpper(s) == [i \in 1..Len(s) |-> ToUpperCh(s[i])]

\* strings.IndexByte, 1-based; 0 when c does not occur
IndexByte(s, c) ==
    IF \E i \in 1..Len(s) : s[i] = c
    THEN CHOOSE i \in 1..Len(s) : s[i] = c /\ \A j \in 1..(i-1) : s[j] # c
    ELSE 0

\* strings.LastIndexByte, 1-based; 0 when c does not occur
LastIndexByte(s, c) ==
    IF \E i \in 1..Len(s) : s[i] = c
    THEN CHOOSE i \in 1..Len(s) : s[i] = c /\ \A j \in (i+1)..Len(s) : s[j] # c
    ELSE 0

\* s[from:] with a 1-based first index
From(s, from) == SubSeq(s, from, Len(s))

\* strings.HasPrefix
HasPrefix(s, p) == Len(s) >= Len(p) /\ SubSeq(s, 1, Len(p)) = p

\* strings.TrimSpace
RECURSIVE TrimLeft(_)
TrimLeft(s) ==
    IF s # <<>> /\ Head(s) \in WhiteSpace THEN TrimLeft(Tail(s)) ELSE s

RECURSIVE TrimRight(_)
TrimRight(s) ==
    IF s # <<>> /\ s[Len(s)] \in WhiteSpace
    THEN TrimRight(SubSeq(s, 1, Len(s) - 1))
    ELSE s

TrimSpace(s) == TrimRight(TrimLeft(s))

\* strings.Fields: the maximal runs of non-space characters, in order
RECURSIVE FieldsFrom(_, _, _)
FieldsFrom(s, cur, acc) ==
    IF s = <<>>
    THEN IF cur = <<>> THEN acc ELSE Append(acc, cur)
    ELSE IF Head(s) \in WhiteSpace
         THEN FieldsFrom(Tail(s), <<>>, IF cur = <<>> THEN acc ELSE Append(acc, cur))
         ELSE FieldsFrom(Tail(s), Append(cur, Head(s)), acc)

Fields(s) == FieldsFrom(s, <<>>, <<>>)

\* strings.Split(s, "."): the pieces between the dots, empty pieces included
RECURSIVE SplitFrom(_, _, _, _)
SplitFrom(s, sep, cur, acc) ==
    IF s = <<>>
    THEN Append(acc, cur)
    ELSE IF Head(s) = sep
         THEN SplitFrom(Tail(s), sep, <<>>, Append(acc, cur))
         ELSE SplitFrom(Tail(s), sep, Append(cur, Head(s)), acc)

Split(s, sep) == SplitFrom(s, sep, <<>>, <<>>)

\* strings.Join(parts, ".")
RECURSIVE StringsJoin(_, _)
StringsJoin(parts, sep) ==
    IF parts = <<>> THEN <<>>
    ELSE IF Len(parts) = 1 THEN parts[1]
    ELSE parts[1] \o <<sep>> \o StringsJoin(Tail(parts), sep)

\* net.SplitHostPort: host, port and whether it failed
SplitHostPort(hostport) ==
    LET i   == LastIndexByte(hostport, ":")
        bad == [host |-> <<>>, port |-> <<>>, err |-> TRUE]
    IN  IF i = 0 THEN bad
        ELSE IF hostport[1] = "["
        THEN LET end == IndexByte(hostport, "]")
             IN  IF end = 0 \/ end = Len(hostport) \/ end + 1 # i THEN bad
                 ELSE IF IndexByte(From(hostport, 2), "[") # 0 THEN bad
                 ELSE IF IndexByte(From(hostport, end + 1), "]") # 0 THEN bad
                 ELSE [host |-> SubSeq(hostport, 2, end - 1),
                       port |-> From(hostport, i + 1), err |-> FALSE]
        ELSE IF IndexByte(SubSeq(hostport, 1, i - 1), ":") # 0 THEN bad
        ELSE IF IndexByte(hostport, "[") # 0 \/ IndexByte(hostport, "]") # 0 THEN bad
        ELSE [host |-> SubSeq(hostport, 1, i - 1),
              port |-> From(hostport, i + 1), err |-> FALSE]

\* net/url validOptionalPort: "" or ":" followed by digits only
ValidOptionalPort(port) ==
    \/ port = <<>>
    \/ /\ port[1] = ":"
       /\ \A k \in 2..Len(port) : port[k] \in Digits

\* net/url splitHostPort, behind URL.Hostname and URL.Port
UrlSplitHostPort(hostPort) ==
    LET colon == LastIndexByte(hostPort, ":")
        cut   == colon # 0 /\ ValidOptionalPort(From(hostPort, colon))
        h     == IF cut THEN SubSeq(hostPort, 1, colon - 1) ELSE hostPort
        p     == IF cut THEN From(hostPort, colon + 1) ELSE <<>>
    IN  [host |-> IF h # <<>> /\ h[1] = "[" /\ h[Len(h)] = "]"
                  THEN SubSeq(h, 2, Len(h) - 1) ELSE h,
         port |-> p]

HttpPrefix  == <<"h", "t", "t", "p", ":", "/", "/">>
HttpsPrefix == <<"h", "t", "t", "p", "s", ":", "/", "/">>

\* url.Parse of a string that starts with http:// or https://, over the
\* characters that need no escaping (letters, digits, . : / ? # - _):
\* scheme, host, path, raw query and whether parsing failed
UrlParse(rawURL) ==
    LET hash   == IndexByte(rawURL, "#")
        u      == IF hash = 0 THEN rawURL ELSE SubSeq(rawURL, 1, hash - 1)
        sc     == IndexByte(u, ":")
        scheme == SubSeq(u, 1, sc - 1)
        rest0  == From(u, sc + 1)
        qm     == IndexByte(rest0, "?")
        rest1  == IF qm = 0 THEN rest0 ELSE SubSeq(rest0, 1, qm - 1)
        query  == IF qm = 0 THEN <<>> ELSE From(rest0, qm + 1)
        auth0  == From(rest1, 3)
        sl     == IndexByte(auth0, "/")
        auth   == IF sl = 0 THEN auth0 ELSE SubSeq(auth0, 1, sl - 1)
        path   == IF sl = 0 THEN <<>> ELSE From(auth0, sl)
        at     == LastIndexByte(auth, "@")
        host   == From(auth, at + 1)
        colon  == LastIndexByte(host, ":")
        badPort == /\ host = <<>> \/ host[1] # "["
                   /\ colon # 0
                   /\ ~ValidOptionalPort(From(host, colon))
    IN  [scheme |-> ToLower(scheme), host |-> host, path |-> path,
         rawQuery |-> query, err |-> badPort]

(***************************************************************************)
(* The pure functions of proxy/handler.go.                                 *)
(***************************************************************************)
\* parseHostPort: host:port split, defaultPort when SplitHostPort fails
parseHostPort(addr, defaultPort) ==
    LET r == SplitHostPort(addr)
    IN  IF r.err THEN <<addr, defaultPort>> ELSE <<r.host, r.port>>

Port80  == <<"8", "0">>
Port443 == <<"4", "4", "3">>

\* extractHostFromURI asking the Host header first
extractHostFromURIHostFirst(rawURI, hostHeader) ==
    LET u == UrlParse(rawURI)
    IN  IF hostHeader # <<>>
        THEN parseHostPort(TrimSpace(hostHeader), Port80)
        ELSE IF (HasPrefix(rawURI, HttpPrefix) \/ HasPrefix(rawURI, HttpsPrefix)) /\ ~u.err
        THEN LET hp == UrlSplitHostPort(u.host)
             IN  <<hp.host,
                   IF hp.port = <<>>
                   THEN IF u.scheme = <<"h", "t", "t", "p", "s">> THEN Port443 ELSE Port80
                   ELSE hp.port>>
        ELSE << <<>>, Port80 >>

\* extractHostFromURI: host and port from an absolute URI, else from Host
extractHostFromURI(rawURI, hostHeader) ==
    LET u == UrlParse(rawURI)
    IN  IF (HasPrefix(rawURI, HttpPrefix) \/ HasPrefix(rawURI, HttpsPrefix)) /\ ~u.err
        THEN LET hp == UrlSplitHostPort(u.host)
             IN  <<hp.host,
                   IF hp.port = <<>>
                   THEN IF u.scheme = <<"h", "t", "t", "p", "s">> THEN Port443 ELSE Port80
                   ELSE hp.port>>
        ELSE IF hostHeader # <<>>
             THEN parseHostPort(TrimSpace(hostHeader), Port80)
             ELSE << <<>>, Port80 >>

\* cleanRequestURI without the "/" for an empty path
cleanRequestURINoSlash(rawURI) ==
    LET u == UrlParse(rawURI)
    IN  IF (HasPrefix(rawURI, HttpPrefix) \/ HasPrefix(rawURI, HttpsPrefix)) /\ ~u.err
        THEN u.path
             \o (IF u.rawQuery # <<>> THEN <<"?">> \o u.rawQuery ELSE <<>>)
        ELSE rawURI

\* cleanRequestURI: path and query of an absolute URI, anything else as is
cleanRequestURI(rawURI) ==
    LET u == UrlParse(rawURI)
    IN  IF (HasPrefix(rawURI, HttpPrefix) \/ HasPrefix(rawURI, HttpsPrefix)) /\ ~u.err
        THEN (IF u.path = <<>> THEN <<"/">> ELSE u.path)
             \o (IF u.rawQuery # <<>> THEN <<"?">> \o u.rawQuery ELSE <<>>)
        ELSE rawURI

\* the parent domains isBlocked tries: strings.Join(parts[i:], ".") for i >= 1
ParentDomains(host) ==
    LET parts == Split(host, ".")
    IN  {StringsJoin(From(parts, i), ".") : i \in 2..Len(parts)}

\* isBlocked without the net.SplitHostPort of lines 248-250
isBlockedNoPortStrip(host, list) ==
    LET h == ToLower(host)
    IN  /\ h # <<>>
        /\ \/ h \in list
           \/ \E d \in ParentDomains(h) : d \in list

\* isBlocked with strings.HasSuffix in place of the parent-domain loop
isBlockedAnySuffix(host, blocklist) ==
    LET low == ToLower(host)
        r   == SplitHostPort(low)
        h   == IF r.err THEN low ELSE r.host
    IN  /\ h # <<>>
        /\ \E d \in blocklist :
              Len(d) <= Len(h) /\ From(h, Len(h) - Len(d) + 1) = d

\* isBlocked without the parent-domain loop of lines 259-266
isBlockedExactOnly(host, blocklist) ==
    LET low == ToLower(host)
        r   == SplitHostPort(low)
        h   == IF r.err THEN low ELSE r.host
    IN  h # <<>> /\ h \in blocklist

\* isBlocked: exact match or a parent domain in the blocklist
isBlocked(host, blocklist) ==
    LET low == ToLower(host)
        r   == SplitHostPort(low)
        h   == IF r.err THEN low ELSE r.host
    IN  /\ h # <<>>
        /\ \/ h \in blocklist
           \/ \E d \in ParentDomains(h) : d \in blocklist

\* sendError: the response text, as the pieces of its format string
ErrorResponse(statusCode, statusText) ==
    <<"HTTP/1.1 ", statusCode, " ", statusText,
      "\r\nContent-Type: text/plain\r\nConnection: close\r\n\r\n",
      statusCode, " ", statusText, "\n">>

\* the literal handleHTTPS answers a successful dial with
Established == <<"HTTP/1.1 200 Connection Established\r\n\r\n">>

\* logConnection: one record of the log file (the timestamp left out)
LogLine(clientAddr, targetHost, method, status, details) ==
    [client |-> clientAddr, host |-> targetHost, method |-> method,
     status |-> status, details |-> details]

(***************************************************************************)
(* The inputs: what a client may send, and the blocklist main.go loaded.   *)
(***************************************************************************)
\* an absolute URI to a host that is not blocked
\* GET http://ok.org/p?q HTTP/1.1\r\nHost: ok.org\r\n\r\n
HeadAbsolute ==
    <<"G", "E", "T", " ", "h", "t", "t", "p", ":", "/", "/", "o", "k", ".",
      "o", "r", "g", "/", "p", "?", "q", " ", "H", "T", "T", "P", "/", "1",
      ".", "1", "\r", "\n", "H", "o", "s", "t", ":", " ", "o", "k", ".", "o",
      "r", "g", "\r", "\n", "\r", "\n">>

\* an origin-form URI; the Host header names a subdomain of a blocked domain
\* get /p HTTP/1.1\r\nhOsT: www.Bad.com:8080\r\n\r\n
HeadHostHeader ==
    <<"g", "e", "t", " ", "/", "p", " ", "H", "T", "T", "P", "/", "1", ".",
      "1", "\r", "\n", "h", "O", "s", "T", ":", " ", "w", "w", "w", ".", "B",
      "a", "d", ".", "c", "o", "m", ":", "8", "0", "8", "0", "\r", "\n",
      "\r", "\n">>

\* a tunnel to a host that is not blocked
\* CONNECT ok.org:443 HTTP/1.1\r\n\r\n
HeadConnect ==
    <<"C", "O", "N", "N", "E", "C", "T", " ", "o", "k", ".", "o", "r", "g",
      ":", "4", "4", "3", " ", "H", "T", "T", "P", "/", "1", ".", "1", "\r",
      "\n", "\r", "\n">>

\* a tunnel to a blocked domain
\* connect bad.com:443 HTTP/1.1\r\nA: b\r\n\r\n
HeadConnectBlocked ==
    <<"c", "o", "n", "n", "e", "c", "t", " ", "b", "a", "d", ".", "c", "o",
      "m", ":", "4", "4", "3", " ", "H", "T", "T", "P", "/", "1", ".", "1",
      "\r", "\n", "A", ":", " ", "b", "\r", "\n", "\r", "\n">>

\* the malformed request of tests/test_proxy.sh
\* INVALID REQUEST\r\n\r\n
HeadTwoFields ==
    <<"I", "N", "V", "A", "L", "I", "D", " ", "R", "E", "Q", "U", "E", "S",
      "T", "\r", "\n", "\r", "\n">>

\* an origin-form URI without a Host header, bare line feeds
\* POST /p HTTP/1.1\n\n
HeadNoHost ==
    <<"P", "O", "S", "T", " ", "/", "p", " ", "H", "T", "T", "P", "/", "1",
      ".", "1", "\n", "\n">>

\* two Host lines in different letter case, the last with capitals
\* GET /p HTTP/1.1\r\nHost: a\r\nhOST: B.c\r\n\r\n
HeadTwoHosts ==
    <<"G", "E", "T", " ", "/", "p", " ", "H", "T", "T", "P", "/", "1", ".",
      "1", "\r", "\n", "H", "o", "s", "t", ":", " ", "a", "\r", "\n", "h", "O",
      "S", "T", ":", " ", "B", ".", "c", "\r", "\n", "\r", "\n">>

\* a tunnel asked for with a method in mixed case
\* cOnNeCt ok.org:443 HTTP/1.1\r\n\r\n
HeadConnectMixed ==
    <<"c", "O", "n", "N", "e", "C", "t", " ", "o", "k", ".", "o", "r", "g",
      ":", "4", "4", "3", " ", "H", "T", "T", "P", "/", "1", ".", "1", "\r",
      "\n", "\r", "\n">>

Heads == {HeadAbsolute, HeadHostHeader, HeadConnect, HeadConnectBlocked,
          HeadTwoFields, HeadNoHost}

\* the bytes that follow the header block: request body or tunnelled bytes
BodyBytes == [i \in 1..MaxBody |-> UpperChars[((i - 1) % 26) + 1]]

\* the bytes the target answers with
RespBytes == [i \in 1..MaxResp |-> LowerChars[((i - 1) % 26) + 1]]

\* blocked_domains.txt as loaded by loadBlockedDomains: bad.com
Blocklist == {<<"b", "a", "d", ".", "c", "o", "m">>}

Connect == <<"C", "O", "N", "N", "E", "C", "T">>

(***************************************************************************)
(* The state of one connection.                                            *)
(***************************************************************************)
VARIABLES
    input,        \* everything the client would send: a head and BodyBytes
    csent,        \* how many bytes of input the client has sent
    cnet,         \* bytes sent by the client, not yet read from clientConn
    cstate,       \* the client's end: "open", "eof" (sent FIN), "reset"
    tsent,        \* how many bytes of RespBytes the target has sent
    tnet,         \* bytes sent by the target, not yet read from targetConn
    tstate,       \* the target's end: "none" before the dial, then as cstate
    buf,          \* reader: bytes bufio has read from clientConn, not consumed
    parsed,       \* number of bytes the parser consumed with ReadString
    pc,           \* where HandleConnection is
    req,          \* method, rawURI, httpVersion, headers, hostHeader
    target,       \* targetHost, targetPort
    checked,      \* the result of the blocklist check: "none", "blocked", "allowed"
    hi,           \* index of the next header handleHTTP forwards
    dials,        \* number of calls of net.DialTimeout
    dialResult,   \* "none", "ok", "fail"
    targetIn,     \* bytes written to targetConn
    clientOut,    \* bytes written to clientConn
    resp,         \* status codes of the responses the proxy generated itself
    logFile,      \* the records written by logConnection
    clientConn,   \* the proxy's side of clientConn: wclosed, closed
    targetConn,   \* the proxy's side of targetConn: wclosed, closed
    c2t,          \* goroutine client -> target: pc, pending, read, end
    t2c,          \* goroutine target -> client: pc, pending, read, end
    exit,         \* the path on which HandleConnection returned
    fnIn,         \* the arguments of a function applied on its own
    fnOut,        \* its results
    writers,      \* concurrent callers of logConnection: pc, rec
    fileText,     \* the text of the log file they share
    blocklist,    \* the set of blocked domains main.go hands to the handlers
    creading,     \* the client takes the bytes written to clientConn
    treading,     \* the target takes the bytes written to targetConn
    mainPc,       \* where main is: "load", "accept", "go", "fatal"
    blockedFile,  \* the text of the blocked-domains file
    scanPos,      \* number of lines loadBlockedDomains has scanned
    arriving,     \* the connections clients are still going to open
    backlog,      \* connections opened, waiting for listener.Accept
    newConn,      \* the connection Accept returned last, 0 when handed on
    accepted,     \* every connection Accept has returned, in order
    handlers,     \* the HandleConnection goroutines: conn, blocklist, state
    acceptErrs    \* number of times Accept returned an error

(* What the handler is given and what the peers do on their side. *)
env == <<blocklist, creading, treading>>

(* main: the blocklist loader and the accept loop. *)
srv == <<mainPc, blockedFile, scanPos, arriving, backlog, newConn, accepted,
         handlers, acceptErrs>>

(* What the handler of one connection never touches. *)
side == <<fnIn, fnOut, writers, fileText, env, srv>>

(* The connection that one call of HandleConnection handles. *)
connVars == <<input, csent, cnet, cstate, tsent, tnet, tstate, buf, parsed,
              pc, req, target, checked, hi, dials, dialResult, targetIn,
              clientOut, resp, logFile, clientConn, targetConn, c2t, t2c,
              exit>>

vars == <<connVars, side>>

ClientAddr == "client"

NoReq == [method |-> <<>>, rawURI |-> <<>>, httpVersion |-> <<>>,
          headers |-> <<>>, hostHeader |-> <<>>]

IdleTask == [pc |-> "idle", pending |-> <<>>, read |-> <<>>, end |-> "none"]

(* tcp: the connection is a *net.TCPConn, which has CloseWrite. *)
OpenConn == [wclosed |-> FALSE, closed |-> FALSE, tcp |-> TRUE]

NoFn == <<>>

(* The blocklist is loaded before the listener starts; both peers read. *)
EnvInit ==
    /\ blocklist = Blocklist
    /\ creading = TRUE
    /\ treading = TRUE

(* main left out: one connection it accepted is looked at on its own. *)
MainOff ==
    /\ mainPc = "off"
    /\ blockedFile = <<>>
    /\ scanPos = 0
    /\ arriving = <<>>
    /\ backlog = <<>>
    /\ newConn = 0
    /\ accepted = <<>>
    /\ handlers = <<>>
    /\ acceptErrs = 0

SideIdle ==
    /\ fnIn = NoFn
    /\ fnOut = NoFn
    /\ writers = <<>>
    /\ fileText = <<>>
    /\ EnvInit
    /\ MainOff

InitConn(inputs, conns) ==
    /\ input \in inputs
    /\ csent = 0
    /\ cnet = <<>>
    /\ cstate = "open"
    /\ tsent = 0
    /\ tnet = <<>>
    /\ tstate = "none"
    /\ buf = <<>>
    /\ parsed = 0
    /\ pc = "readline"
    /\ req = NoReq
    /\ target = << <<>>, <<>> >>
    /\ checked = "none"
    /\ hi = 1
    /\ dials = 0
    /\ dialResult = "none"
    /\ targetIn = <<>>
    /\ clientOut = <<>>
    /\ resp = <<>>
    /\ logFile = <<>>
    /\ clientConn \in conns
    /\ targetConn = OpenConn
    /\ c2t = IdleTask
    /\ t2c = IdleTask
    /\ exit = "none"

(* main.go accepts from a TCP listener: clientConn is a *net.TCPConn. *)
Init ==
    /\ InitConn({h \o BodyBytes : h \in Heads}, {OpenConn})
    /\ SideIdle

(***************************************************************************)
(* The peers.                                                              *)
(***************************************************************************)
\* the client sends the next k bytes of its stream
ClientSend ==
    /\ pc # "done"
    /\ cstate = "open"
    /\ \E k \in 1..(Len(input) - csent) :
          /\ csent' = csent + k
          /\ cnet' = cnet \o SubSeq(input, csent + 1, csent + k)
    /\ UNCHANGED <<side, input, cstate, tsent, tnet, tstate, buf, parsed, pc, req,
                   target, checked, hi, dials, dialResult, targetIn, clientOut,
                   resp, logFile, clientConn, targetConn, c2t, t2c, exit>>

\* the client shuts down its sending side: the proxy will read end-of-stream
ClientCloseWrite ==
    /\ pc # "done"
    /\ cstate = "open"
    /\ cstate' = "eof"
    /\ UNCHANGED <<side, input, csent, cnet, tsent, tnet, tstate, buf, parsed, pc,
                   req, target, checked, hi, dials, dialResult, targetIn,
                   clientOut, resp, logFile, clientConn, targetConn, c2t, t2c,
                   exit>>

\* the client connection breaks: reads and writes on clientConn fail
ClientReset ==
    /\ pc # "done"
    /\ cstate \in {"open", "eof"}
    /\ cstate' = "reset"
    /\ cnet' = <<>>
    /\ UNCHANGED <<side, input, csent, tsent, tnet, tstate, buf, parsed, pc, req,
                   target, checked, hi, dials, dialResult, targetIn, clientOut,
                   resp, logFile, clientConn, targetConn, c2t, t2c, exit>>

\* the target sends the next byte of its response
TargetSend ==
    /\ pc # "done"
    /\ tstate = "open"
    /\ tsent < Len(RespBytes)
    /\ tsent' = tsent + 1
    /\ tnet' = Append(tnet, RespBytes[tsent + 1])
    /\ UNCHANGED <<side, input, csent, cnet, cstate, tstate, buf, parsed, pc, req,
                   target, checked, hi, dials, dialResult, targetIn, clientOut,
                   resp, logFile, clientConn, targetConn, c2t, t2c, exit>>

\* the target shuts down its sending side
TargetCloseWrite ==
    /\ pc # "done"
    /\ tstate = "open"
    /\ tstate' = "eof"
    /\ UNCHANGED <<side, input, csent, cnet, cstate, tsent, tnet, buf, parsed, pc,
                   req, target, checked, hi, dials, dialResult, targetIn,
                   clientOut, resp, logFile, clientConn, targetConn, c2t, t2c,
                   exit>>

\* the target connection breaks: reads and writes on targetConn fail
TargetReset ==
    /\ pc # "done"
    /\ tstate \in {"open", "eof"}
    /\ tstate' = "reset"
    /\ tnet' = <<>>
    /\ UNCHANGED <<side, input, csent, cnet, cstate, tsent, buf, parsed, pc, req,
                   target, checked, hi, dials, dialResult, targetIn, clientOut,
                   resp, logFile, clientConn, targetConn, c2t, t2c, exit>>

(***************************************************************************)
(* HandleConnection, up to the dial.                                       *)
(***************************************************************************)
\* a Write on clientConn succeeds unless the connection broke or was closed
ClientWriteOK == cstate # "reset" /\ ~clientConn.closed

\* a Write on targetConn succeeds unless the connection broke or was closed
TargetWriteOK == tstate \in {"open", "eof"} /\ ~targetConn.closed

\* Close, deferred or not
Closed(conn) == [conn EXCEPT !.closed = TRUE]

\* what sendError leaves on the wire to the client
AfterSendError(statusCode, statusText) ==
    IF ClientWriteOK
    THEN clientOut \o ErrorResponse(statusCode, statusText)
    ELSE clientOut

\* reader.ReadString('\n'): the line, the error, and what the call leaves in
\* the bufio buffer and on the connection.  bufio fills its buffer with all
\* the bytes the connection has at that moment; the call blocks (ready is
\* FALSE) while no line break has arrived and the stream has not ended.
ReadString(b, net, st) ==
    LET nl  == IndexByte(b, "\n")
        all == b \o net
        n2  == IndexByte(all, "\n")
    IN  IF nl # 0
        THEN [ready |-> TRUE, line |-> SubSeq(b, 1, nl), err |-> FALSE,
              buf |-> From(b, nl + 1), net |-> net]
        ELSE IF n2 # 0
        THEN [ready |-> TRUE, line |-> SubSeq(all, 1, n2), err |-> FALSE,
              buf |-> From(all, n2 + 1), net |-> <<>>]
        ELSE [ready |-> st # "open", line |-> all, err |-> TRUE,
              buf |-> <<>>, net |-> <<>>]

\* ReadRequestLine without the sendError of line 31
ReadRequestLineNo400 ==
    /\ pc = "readline"
    /\ LET r     == ReadString(buf, cnet, cstate)
           parts == Fields(r.line)
       IN  /\ r.ready
           /\ buf' = r.buf
           /\ cnet' = r.net
           /\ parsed' = parsed + Len(r.line)
           /\ IF r.err
              THEN /\ logFile' = Append(logFile,
                         LogLine(ClientAddr, <<>>, <<>>, "ERROR",
                                 <<"Failed to read request">>))
                   /\ clientConn' = Closed(clientConn)
                   /\ pc' = "done"
                   /\ exit' = "readfail"
                   /\ UNCHANGED <<req, clientOut, resp>>
              ELSE IF Len(parts) < 3
              THEN /\ logFile' = Append(logFile,
                         LogLine(ClientAddr, <<>>, <<>>, "ERROR",
                                 <<"Invalid request line">>))
                   /\ clientConn' = Closed(clientConn)
                   /\ pc' = "done"
                   /\ exit' = "malformed"
                   /\ UNCHANGED <<req, clientOut, resp>>
              ELSE /\ req' = [req EXCEPT !.method = ToUpper(parts[1]),
                                         !.rawURI = parts[2],
                                         !.httpVersion = parts[3]]
                   /\ pc' = "headers"
                   /\ UNCHANGED <<logFile, clientOut, resp, clientConn, exit>>
    /\ UNCHANGED <<side, input, csent, cstate, tsent, tnet, tstate, target, checked,
                   hi, dials, dialResult, targetIn, targetConn, c2t, t2c>>

\* ReadRequestLine with a sendError(400) added to the branch of lines 22-25
ReadRequestLine400OnReadError ==
    /\ pc = "readline"
    /\ LET r     == ReadString(buf, cnet, cstate)
           parts == Fields(r.line)
       IN  /\ r.ready
           /\ buf' = r.buf
           /\ cnet' = r.net
           /\ parsed' = parsed + Len(r.line)
           /\ IF r.err
              THEN /\ logFile' = Append(logFile,
                         LogLine(ClientAddr, <<>>, <<>>, "ERROR",
                                 <<"Failed to read request">>))
                   /\ clientOut' = AfterSendError("400", "Bad Request")
                   /\ resp' = Append(resp, "400")
                   /\ clientConn' = Closed(clientConn)
                   /\ pc' = "done"
                   /\ exit' = "readfail"
                   /\ UNCHANGED req
              ELSE IF Len(parts) < 3
              THEN /\ logFile' = Append(logFile,
                         LogLine(ClientAddr, <<>>, <<>>, "ERROR",
                                 <<"Invalid request line">>))
                   /\ clientOut' = AfterSendError("400", "Bad Request")
                   /\ resp' = Append(resp, "400")
                   /\ clientConn' = Closed(clientConn)
                   /\ pc' = "done"
                   /\ exit' = "malformed"
                   /\ UNCHANGED req
              ELSE /\ req' = [req EXCEPT !.method = ToUpper(parts[1]),
                                         !.rawURI = parts[2],
                                         !.httpVersion = parts[3]]
                   /\ pc' = "headers"
                   /\ UNCHANGED <<logFile, clientOut, resp, clientConn, exit>>
    /\ UNCHANGED <<side, input, csent, cstate, tsent, tnet, tstate, target, checked,
                   hi, dials, dialResult, targetIn, targetConn, c2t, t2c>>

\* handler.go 19-37: read and split the request line
ReadRequestLine ==
    /\ pc = "readline"
    /\ LET r     == ReadString(buf, cnet, cstate)
           parts == Fields(r.line)
       IN  /\ r.ready
           /\ buf' = r.buf
           /\ cnet' = r.net
           /\ parsed' = parsed + Len(r.line)
           /\ IF r.err
              THEN /\ logFile' = Append(logFile,
                         LogLine(ClientAddr, <<>>, <<>>, "ERROR",
                                 <<"Failed to read request">>))
                   /\ clientConn' = Closed(clientConn)
                   /\ pc' = "done"
                   /\ exit' = "readfail"
                   /\ UNCHANGED <<req, clientOut, resp>>
              ELSE IF Len(parts) < 3
              THEN /\ logFile' = Append(logFile,
                         LogLine(ClientAddr, <<>>, <<>>, "ERROR",
                                 <<"Invalid request line">>))
                   /\ clientOut' = AfterSendError("400", "Bad Request")
                   /\ resp' = Append(resp, "400")
                   /\ clientConn' = Closed(clientConn)
                   /\ pc' = "done"
                   /\ exit' = "malformed"
                   /\ UNCHANGED req
              ELSE /\ req' = [req EXCEPT !.method = ToUpper(parts[1]),
                                         !.rawURI = parts[2],
                                         !.httpVersion = parts[3]]
                   /\ pc' = "headers"
                   /\ UNCHANGED <<logFile, clientOut, resp, clientConn, exit>>
    /\ UNCHANGED <<side, input, csent, cstate, tsent, tnet, tstate, target, checked,
                   hi, dials, dialResult, targetIn, targetConn, c2t, t2c>>

HostColon == <<"h", "o", "s", "t", ":">>

\* ReadHeader keeping the first Host line instead of the last
ReadHeaderFirstHost ==
    /\ pc = "headers"
    /\ LET r == ReadString(buf, cnet, cstate)
       IN  /\ r.ready
           /\ buf' = r.buf
           /\ cnet' = r.net
           /\ parsed' = parsed + Len(r.line)
           /\ IF r.err \/ r.line = <<"\r", "\n">> \/ r.line = <<"\n">>
              THEN /\ pc' = "check"
                   /\ UNCHANGED req
              ELSE /\ pc' = "headers"
                   /\ req' = [req EXCEPT
                         !.headers = Append(@, r.line),
                         !.hostHeader =
                            IF HasPrefix(ToLower(r.line), HostColon) /\ @ = <<>>
                            THEN TrimSpace(From(r.line, 6))
                            ELSE @]
    /\ UNCHANGED <<side, input, csent, cstate, tsent, tnet, tstate, target, checked,
                   hi, dials, dialResult, targetIn, clientOut, resp, logFile,
                   clientConn, targetConn, c2t, t2c, exit>>

\* handler.go 42-52: one turn of the header loop
ReadHeader ==
    /\ pc = "headers"
    /\ LET r == ReadString(buf, cnet, cstate)
       IN  /\ r.ready
           /\ buf' = r.buf
           /\ cnet' = r.net
           /\ parsed' = parsed + Len(r.line)
           /\ IF r.err \/ r.line = <<"\r", "\n">> \/ r.line = <<"\n">>
              THEN /\ pc' = "check"
                   /\ UNCHANGED req
              ELSE /\ pc' = "headers"
                   /\ req' = [req EXCEPT
                         !.headers = Append(@, r.line),
                         !.hostHeader =
                            IF HasPrefix(ToLower(r.line), HostColon)
                            THEN TrimSpace(From(r.line, 6))
                            ELSE @]
    /\ UNCHANGED <<side, input, csent, cstate, tsent, tnet, tstate, target, checked,
                   hi, dials, dialResult, targetIn, clientOut, resp, logFile,
                   clientConn, targetConn, c2t, t2c, exit>>

\* handler.go 54-64: the target of the request
ResolveTarget(r) ==
    IF r.method = Connect
    THEN parseHostPort(r.rawURI, Port443)
    ELSE extractHostFromURI(r.rawURI, r.hostHeader)

\* CheckBlocklist without the logConnection of line 68
CheckBlocklistNoLog ==
    /\ pc = "check"
    /\ LET tg == ResolveTarget(req)
       IN  /\ target' = tg
           /\ IF isBlocked(tg[1], blocklist)
              THEN /\ checked' = "blocked"
                   /\ clientOut' = AfterSendError("403", "Forbidden")
                   /\ resp' = Append(resp, "403")
                   /\ clientConn' = Closed(clientConn)
                   /\ pc' = "done"
                   /\ exit' = "blocked"
                   /\ UNCHANGED logFile
              ELSE /\ checked' = "allowed"
                   /\ pc' = "dial"
                   /\ UNCHANGED <<logFile, clientOut, resp, clientConn, exit>>
    /\ UNCHANGED <<side, input, csent, cnet, cstate, tsent, tnet, tstate, buf, parsed,
                   req, hi, dials, dialResult, targetIn, targetConn, c2t, t2c>>

\* CheckBlocklist with an isBlocked that adds the host it found blocked to
\* the blocklist
CheckBlocklistLearns ==
    /\ pc = "check"
    /\ LET tg == ResolveTarget(req)
       IN  /\ target' = tg
           /\ IF isBlocked(tg[1], blocklist)
              THEN /\ checked' = "blocked"
                   /\ blocklist' = blocklist \cup {ToLower(tg[1])}
                   /\ logFile' = Append(logFile,
                         LogLine(ClientAddr, tg[1], req.method, "BLOCKED",
                                 <<"Domain is blocked">>))
                   /\ clientOut' = AfterSendError("403", "Forbidden")
                   /\ resp' = Append(resp, "403")
                   /\ clientConn' = Closed(clientConn)
                   /\ pc' = "done"
                   /\ exit' = "blocked"
              ELSE /\ checked' = "allowed"
                   /\ pc' = "dial"
                   /\ UNCHANGED <<blocklist, logFile, clientOut, resp, clientConn,
                                  exit>>
    /\ UNCHANGED <<srv, fnIn, fnOut, writers, fileText, creading, treading, input,
                   csent, cnet, cstate, tsent, tnet, tstate, buf, parsed, req,
                   hi, dials, dialResult, targetIn, targetConn, c2t, t2c>>

\* CheckBlocklist without the return of line 70: a blocked request is
\* answered with 403 and dispatched all the same
CheckBlocklistNoReturn ==
    /\ pc = "check"
    /\ LET tg == ResolveTarget(req)
       IN  /\ target' = tg
           /\ pc' = "dial"
           /\ IF isBlocked(tg[1], blocklist)
              THEN /\ checked' = "blocked"
                   /\ logFile' = Append(logFile,
                         LogLine(ClientAddr, tg[1], req.method, "BLOCKED",
                                 <<"Domain is blocked">>))
                   /\ clientOut' = AfterSendError("403", "Forbidden")
                   /\ resp' = Append(resp, "403")
              ELSE /\ checked' = "allowed"
                   /\ UNCHANGED <<logFile, clientOut, resp>>
    /\ UNCHANGED <<side, input, csent, cnet, cstate, tsent, tnet, tstate, buf, parsed,
                   req, hi, dials, dialResult, targetIn, clientConn, targetConn,
                   c2t, t2c, exit>>

\* handler.go 54-77: resolve the target, check the blocklist, dispatch
CheckBlocklist ==
    /\ pc = "check"
    /\ LET tg == ResolveTarget(req)
       IN  /\ target' = tg
           /\ IF isBlocked(tg[1], blocklist)
              THEN /\ checked' = "blocked"
                   /\ logFile' = Append(logFile,
                         LogLine(ClientAddr, tg[1], req.method, "BLOCKED",
                                 <<"Domain is blocked">>))
                   /\ clientOut' = AfterSendError("403", "Forbidden")
                   /\ resp' = Append(resp, "403")
                   /\ clientConn' = Closed(clientConn)
                   /\ pc' = "done"
                   /\ exit' = "blocked"
              ELSE /\ checked' = "allowed"
                   /\ pc' = "dial"
                   /\ UNCHANGED <<logFile, clientOut, resp, clientConn, exit>>
    /\ UNCHANGED <<side, input, csent, cnet, cstate, tsent, tnet, tstate, buf, parsed,
                   req, hi, dials, dialResult, targetIn, targetConn, c2t, t2c>>

\* Dial after a dispatch on the method as the client wrote it
DialCaseSensitive ==
    /\ pc = "dial"
    /\ dials' = dials + 1
    /\ \/ /\ dialResult' = "ok"
          /\ tstate' = "open"
          /\ pc' = IF HasPrefix(input, Connect) THEN "established" ELSE "reqline"
          /\ UNCHANGED <<logFile, clientOut, resp, clientConn, exit>>
       \/ /\ dialResult' = "fail"
          /\ logFile' = Append(logFile,
                LogLine(ClientAddr, target[1],
                        IF req.method = Connect THEN Connect ELSE req.method,
                        "ERROR", <<"Failed to connect">>))
          /\ clientOut' = AfterSendError("502", "Bad Gateway")
          /\ resp' = Append(resp, "502")
          /\ clientConn' = Closed(clientConn)
          /\ pc' = "done"
          /\ exit' = "dialfail"
          /\ UNCHANGED tstate
    /\ UNCHANGED <<side, input, csent, cnet, cstate, tsent, tnet, buf, parsed, req,
                   target, checked, hi, targetIn, targetConn, c2t, t2c>>

\* Dial with one more attempt after the first failure
DialRetry ==
    /\ pc = "dial"
    /\ dials' = dials + 1
    /\ \/ /\ dialResult' = "ok"
          /\ tstate' = "open"
          /\ pc' = IF req.method = Connect THEN "established" ELSE "reqline"
          /\ UNCHANGED <<logFile, clientOut, resp, clientConn, exit>>
       \/ /\ dials = 0
          /\ dialResult' = "fail"
          /\ UNCHANGED <<logFile, clientOut, resp, clientConn, exit, tstate, pc>>
       \/ /\ dials > 0
          /\ dialResult' = "fail"
          /\ logFile' = Append(logFile,
                LogLine(ClientAddr, target[1],
                        IF req.method = Connect THEN Connect ELSE req.method,
                        "ERROR", <<"Failed to connect">>))
          /\ clientOut' = AfterSendError("502", "Bad Gateway")
          /\ resp' = Append(resp, "502")
          /\ clientConn' = Closed(clientConn)
          /\ pc' = "done"
          /\ exit' = "dialfail"
          /\ UNCHANGED tstate
    /\ UNCHANGED <<side, input, csent, cnet, cstate, tsent, tnet, buf, parsed, req,
                   target, checked, hi, targetIn, targetConn, c2t, t2c>>

\* handler.go 82-91 and 132-141: net.DialTimeout and its failure branch
Dial ==
    /\ pc = "dial"
    /\ dials' = dials + 1
    /\ \/ /\ dialResult' = "ok"
          /\ tstate' = "open"
          /\ pc' = IF req.method = Connect THEN "established" ELSE "reqline"
          /\ UNCHANGED <<logFile, clientOut, resp, clientConn, exit>>
       \/ /\ dialResult' = "fail"
          /\ logFile' = Append(logFile,
                LogLine(ClientAddr, target[1],
                        IF req.method = Connect THEN Connect ELSE req.method,
                        "ERROR", <<"Failed to connect">>))
          /\ clientOut' = AfterSendError("502", "Bad Gateway")
          /\ resp' = Append(resp, "502")
          /\ clientConn' = Closed(clientConn)
          /\ pc' = "done"
          /\ exit' = "dialfail"
          /\ UNCHANGED tstate
    /\ UNCHANGED <<side, input, csent, cnet, cstate, tsent, tnet, buf, parsed, req,
                   target, checked, hi, targetIn, targetConn, c2t, t2c>>

(***************************************************************************)
(* handleHTTPS and handleHTTP, from the successful dial to the relay.      *)
(***************************************************************************)
\* wg.Add(2) and the two go statements
StartedTask == [IdleTask EXCEPT !.pc = "read"]

\* handleHTTPS answering a failed write of the 200 with sendError(502),
\* as handleHTTP does at line 151
WriteEstablished502 ==
    /\ pc = "established"
    /\ IF ClientWriteOK
       THEN /\ clientOut' = clientOut \o Established
            /\ resp' = Append(resp, "200")
            /\ logFile' = Append(logFile,
                  LogLine(ClientAddr, target[1], Connect, "OK",
                          <<"Tunnel established">>))
            /\ c2t' = StartedTask
            /\ t2c' = StartedTask
            /\ pc' = "relay"
            /\ UNCHANGED <<clientConn, targetConn, exit>>
       ELSE /\ resp' = resp \o <<"200", "502">>
            /\ logFile' = Append(logFile,
                  LogLine(ClientAddr, target[1], Connect, "ERROR",
                          <<"Failed to send response">>))
            /\ targetConn' = Closed(targetConn)
            /\ clientConn' = Closed(clientConn)
            /\ pc' = "done"
            /\ exit' = "writefail"
            /\ UNCHANGED <<clientOut, c2t, t2c>>
    /\ UNCHANGED <<side, input, csent, cnet, cstate, tsent, tnet, tstate, buf, parsed,
                   req, target, checked, hi, dials, dialResult, targetIn>>

\* handleHTTPS logging the tunnel before it writes the 200
WriteEstablishedLogFirst ==
    /\ pc = "established"
    /\ IF ClientWriteOK
       THEN /\ clientOut' = clientOut \o Established
            /\ resp' = Append(resp, "200")
            /\ logFile' = Append(logFile,
                  LogLine(ClientAddr, target[1], Connect, "OK",
                          <<"Tunnel established">>))
            /\ c2t' = StartedTask
            /\ t2c' = StartedTask
            /\ pc' = "relay"
            /\ UNCHANGED <<clientConn, targetConn, exit>>
       ELSE /\ resp' = Append(resp, "200")
            /\ logFile' = Append(logFile,
                  LogLine(ClientAddr, target[1], Connect, "OK",
                          <<"Tunnel established">>))
            /\ targetConn' = Closed(targetConn)
            /\ clientConn' = Closed(clientConn)
            /\ pc' = "done"
            /\ exit' = "writefail"
            /\ UNCHANGED <<clientOut, c2t, t2c>>
    /\ UNCHANGED <<side, input, csent, cnet, cstate, tsent, tnet, tstate, buf, parsed,
                   req, target, checked, hi, dials, dialResult, targetIn>>

\* handler.go 93-104: answer the CONNECT, log it, start the relay
WriteEstablished ==
    /\ pc = "established"
    /\ IF ClientWriteOK
       THEN /\ clientOut' = clientOut \o Established
            /\ resp' = Append(resp, "200")
            /\ logFile' = Append(logFile,
                  LogLine(ClientAddr, target[1], Connect, "OK",
                          <<"Tunnel established">>))
            /\ c2t' = StartedTask
            /\ t2c' = StartedTask
            /\ pc' = "relay"
            /\ UNCHANGED <<clientConn, targetConn, exit>>
       ELSE /\ resp' = Append(resp, "200")
            /\ logFile' = Append(logFile,
                  LogLine(ClientAddr, target[1], Connect, "ERROR",
                          <<"Failed to send response">>))
            /\ targetConn' = Closed(targetConn)
            /\ clientConn' = Closed(clientConn)
            /\ pc' = "done"
            /\ exit' = "writefail"
            /\ UNCHANGED <<clientOut, c2t, t2c>>
    /\ UNCHANGED <<side, input, csent, cnet, cstate, tsent, tnet, tstate, buf, parsed,
                   req, target, checked, hi, dials, dialResult, targetIn>>

\* the request line with the URI as the client sent it
RequestLineRaw(r) ==
    r.method \o <<" ">> \o r.rawURI \o <<" ">>
             \o r.httpVersion \o <<"\r", "\n">>

\* handler.go 147: the request line handleHTTP sends to the target
RequestLine(r) ==
    r.method \o <<" ">> \o cleanRequestURI(r.rawURI) \o <<" ">>
             \o r.httpVersion \o <<"\r", "\n">>

\* WriteRequestLine ignoring a failed Write, as the header loop does
WriteRequestLineGoesOn ==
    /\ pc = "reqline"
    /\ targetIn' = IF TargetWriteOK THEN targetIn \o RequestLine(req)
                   ELSE targetIn
    /\ hi' = 1
    /\ pc' = "fwdheaders"
    /\ UNCHANGED <<side, input, csent, cnet, cstate, tsent, tnet, tstate, buf, parsed,
                   req, target, checked, dials, dialResult, c2t, t2c, logFile,
                   clientOut, resp, clientConn, targetConn, exit>>

\* handler.go 143-153: write the rewritten request line to the target
WriteRequestLine ==
    /\ pc = "reqline"
    /\ IF TargetWriteOK
       THEN /\ targetIn' = targetIn \o RequestLine(req)
            /\ hi' = 1
            /\ pc' = "fwdheaders"
            /\ UNCHANGED <<logFile, clientOut, resp, clientConn, targetConn,
                           exit>>
       ELSE /\ logFile' = Append(logFile,
                  LogLine(ClientAddr, target[1], req.method, "ERROR",
                          <<"Failed to forward request">>))
            /\ clientOut' = AfterSendError("502", "Bad Gateway")
            /\ resp' = Append(resp, "502")
            /\ targetConn' = Closed(targetConn)
            /\ clientConn' = Closed(clientConn)
            /\ pc' = "done"
            /\ exit' = "writefail"
            /\ UNCHANGED <<targetIn, hi>>
    /\ UNCHANGED <<side, input, csent, cnet, cstate, tsent, tnet, tstate, buf, parsed,
                   req, target, checked, dials, dialResult, c2t, t2c>>

\* handler.go 155-158: forward one header line; a failed Write is ignored
WriteHeader ==
    /\ pc = "fwdheaders"
    /\ hi <= Len(req.headers)
    /\ targetIn' = IF TargetWriteOK THEN targetIn \o req.headers[hi] ELSE targetIn
    /\ hi' = hi + 1
    /\ UNCHANGED <<side, input, csent, cnet, cstate, tsent, tnet, tstate, buf, parsed,
                   pc, req, target, checked, dials, dialResult, clientOut,
                   resp, logFile, clientConn, targetConn, c2t, t2c, exit>>

\* handler.go 159-165: end the header block, log OK, start the relay
WriteHeadersEnd ==
    /\ pc = "fwdheaders"
    /\ hi > Len(req.headers)
    /\ targetIn' = IF TargetWriteOK THEN targetIn \o <<"\r", "\n">> ELSE targetIn
    /\ logFile' = Append(logFile,
          LogLine(ClientAddr, target[1], req.method, "OK",
                  cleanRequestURI(req.rawURI)))
    /\ c2t' = StartedTask
    /\ t2c' = StartedTask
    /\ pc' = "relay"
    /\ UNCHANGED <<side, input, csent, cnet, cstate, tsent, tnet, tstate, buf, parsed,
                   req, target, checked, hi, dials, dialResult, clientOut,
                   resp, clientConn, targetConn, exit>>

\* the header lines one after the other, as the loop of lines 156-158 sends
RECURSIVE Concat(_)
Concat(lines) ==
    IF lines = <<>> THEN <<>> ELSE Head(lines) \o Concat(Tail(lines))

\* handler.go 146-159: all that handleHTTP writes to the target by itself
ForwardedHead(r) == RequestLine(r) \o Concat(r.headers) \o <<"\r", "\n">>

(***************************************************************************)
(* The relay: two io.Copy goroutines and the WaitGroup.                    *)
(***************************************************************************)
\* io.Copy returned: how it ended; wg.Done follows the half-close
Finish(task, how) ==
    [task EXCEPT !.pc = "done", !.pending = <<>>, !.end = how]

\* the chunk a Read returned, to be written next
Took(task, chunk) ==
    [task EXCEPT !.pc = "write", !.pending = chunk, !.read = @ \o chunk]

\* the pending chunk was written
Wrote(task) == [task EXCEPT !.pc = "read", !.pending = <<>>]

\* Close() where lines 111-113 call CloseWrite()
FullClose(conn) == [conn EXCEPT !.closed = TRUE]

HalfCloseOrClose(conn) ==
    IF conn.tcp THEN [conn EXCEPT !.wclosed = TRUE]
    ELSE [conn EXCEPT !.closed = TRUE]

\* if tcpConn, ok := dst.(*net.TCPConn); ok { tcpConn.CloseWrite() } on the
\* destination of a finished copy; the if has no else
HalfClose(conn) == IF conn.tcp THEN [conn EXCEPT !.wclosed = TRUE] ELSE conn

\* handler.go 109 and 170: the source of the client -> target copy is the
\* connection itself in handleHTTPS and the bufio reader in handleHTTP
C2TUsesReader == req.method # Connect

\* client -> target, one Read of io.Copy (handler.go 107-114, 168-174)
C2TRead ==
    /\ pc = "relay"
    /\ c2t.pc = "read"
    /\ IF C2TUsesReader /\ buf # <<>>
       THEN /\ c2t' = Took(c2t, buf)
            /\ buf' = <<>>
            /\ UNCHANGED <<cnet, targetConn>>
       ELSE IF clientConn.closed
       THEN /\ c2t' = Finish(c2t, "closed")
            /\ targetConn' = HalfClose(targetConn)
            /\ UNCHANGED <<buf, cnet>>
       ELSE IF cnet # <<>>
       THEN /\ c2t' = Took(c2t, cnet)
            /\ cnet' = <<>>
            /\ UNCHANGED <<buf, targetConn>>
       ELSE /\ cstate # "open"
            /\ c2t' = Finish(c2t, IF cstate = "eof" THEN "eof" ELSE "rerr")
            /\ targetConn' = HalfClose(targetConn)
            /\ UNCHANGED <<buf, cnet>>
    /\ UNCHANGED <<side, input, csent, cstate, tsent, tnet, tstate, parsed, pc, req,
                   target, checked, hi, dials, dialResult, targetIn, clientOut,
                   resp, logFile, clientConn, t2c, exit>>

\* C2TWrite writing the chunk it holds twice
C2TWriteTwice ==
    /\ pc = "relay"
    /\ c2t.pc = "write"
    /\ TargetWriteOK => treading
    /\ IF TargetWriteOK
       THEN /\ targetIn' = targetIn \o c2t.pending \o c2t.pending
            /\ c2t' = Wrote(c2t)
            /\ UNCHANGED targetConn
       ELSE /\ c2t' = Finish(c2t, "werr")
            /\ targetConn' = HalfClose(targetConn)
            /\ UNCHANGED targetIn
    /\ UNCHANGED <<side, input, csent, cnet, cstate, tsent, tnet, tstate, buf, parsed,
                   pc, req, target, checked, hi, dials, dialResult, clientOut,
                   resp, logFile, clientConn, t2c, exit>>

\* client -> target, one Write of io.Copy; the Write blocks while the target
\* does not take the bytes and the connection stands
C2TWrite ==
    /\ pc = "relay"
    /\ c2t.pc = "write"
    /\ TargetWriteOK => treading
    /\ IF TargetWriteOK
       THEN /\ targetIn' = targetIn \o c2t.pending
            /\ c2t' = Wrote(c2t)
            /\ UNCHANGED targetConn
       ELSE /\ c2t' = Finish(c2t, "werr")
            /\ targetConn' = HalfClose(targetConn)
            /\ UNCHANGED targetIn
    /\ UNCHANGED <<side, input, csent, cnet, cstate, tsent, tnet, tstate, buf, parsed,
                   pc, req, target, checked, hi, dials, dialResult, clientOut,
                   resp, logFile, clientConn, t2c, exit>>

\* T2CRead with clientConn.Close() in place of CloseWrite() at lines 121-123
T2CReadThenClose ==
    /\ pc = "relay"
    /\ t2c.pc = "read"
    /\ IF targetConn.closed
       THEN /\ t2c' = Finish(t2c, "closed")
            /\ clientConn' = Closed(clientConn)
            /\ UNCHANGED tnet
       ELSE IF tnet # <<>>
       THEN /\ t2c' = Took(t2c, tnet)
            /\ tnet' = <<>>
            /\ UNCHANGED clientConn
       ELSE /\ tstate # "open"
            /\ t2c' = Finish(t2c, IF tstate = "eof" THEN "eof" ELSE "rerr")
            /\ clientConn' = Closed(clientConn)
            /\ UNCHANGED tnet
    /\ UNCHANGED <<side, input, csent, cnet, cstate, tsent, tstate, buf, parsed, pc,
                   req, target, checked, hi, dials, dialResult, targetIn,
                   clientOut, resp, logFile, targetConn, c2t, exit>>

\* target -> client, one Read of io.Copy (handler.go 117-124, 177-183)
T2CRead ==
    /\ pc = "relay"
    /\ t2c.pc = "read"
    /\ IF targetConn.closed
       THEN /\ t2c' = Finish(t2c, "closed")
            /\ clientConn' = HalfClose(clientConn)
            /\ UNCHANGED tnet
       ELSE IF tnet # <<>>
       THEN /\ t2c' = Took(t2c, tnet)
            /\ tnet' = <<>>
            /\ UNCHANGED clientConn
       ELSE /\ tstate # "open"
            /\ t2c' = Finish(t2c, IF tstate = "eof" THEN "eof" ELSE "rerr")
            /\ clientConn' = HalfClose(clientConn)
            /\ UNCHANGED tnet
    /\ UNCHANGED <<side, input, csent, cnet, cstate, tsent, tstate, buf, parsed, pc,
                   req, target, checked, hi, dials, dialResult, targetIn,
                   clientOut, resp, logFile, targetConn, c2t, exit>>

\* T2CWrite returning from the goroutine on an error, without CloseWrite
T2CWriteErrorReturns ==
    /\ pc = "relay"
    /\ t2c.pc = "write"
    /\ ClientWriteOK => creading
    /\ IF ClientWriteOK
       THEN /\ clientOut' = clientOut \o t2c.pending
            /\ t2c' = Wrote(t2c)
            /\ UNCHANGED clientConn
       ELSE /\ t2c' = Finish(t2c, "werr")
            /\ UNCHANGED <<clientConn, clientOut>>
    /\ UNCHANGED <<side, input, csent, cnet, cstate, tsent, tnet, tstate, buf, parsed,
                   pc, req, target, checked, hi, dials, dialResult, targetIn,
                   resp, logFile, targetConn, c2t, exit>>

\* T2CWrite answering a failed Write with sendError(502)
T2CWrite502OnError ==
    /\ pc = "relay"
    /\ t2c.pc = "write"
    /\ ClientWriteOK => creading
    /\ IF ClientWriteOK
       THEN /\ clientOut' = clientOut \o t2c.pending
            /\ t2c' = Wrote(t2c)
            /\ UNCHANGED <<clientConn, resp>>
       ELSE /\ t2c' = Finish(t2c, "werr")
            /\ clientConn' = HalfClose(clientConn)
            /\ resp' = Append(resp, "502")
            /\ UNCHANGED clientOut
    /\ UNCHANGED <<side, input, csent, cnet, cstate, tsent, tnet, tstate, buf, parsed,
                   pc, req, target, checked, hi, dials, dialResult, targetIn,
                   logFile, targetConn, c2t, exit>>

\* target -> client, one Write of io.Copy; it blocks like the one of C2TWrite
T2CWrite ==
    /\ pc = "relay"
    /\ t2c.pc = "write"
    /\ ClientWriteOK => creading
    /\ IF ClientWriteOK
       THEN /\ clientOut' = clientOut \o t2c.pending
            /\ t2c' = Wrote(t2c)
            /\ UNCHANGED clientConn
       ELSE /\ t2c' = Finish(t2c, "werr")
            /\ clientConn' = HalfClose(clientConn)
            /\ UNCHANGED clientOut
    /\ UNCHANGED <<side, input, csent, cnet, cstate, tsent, tnet, tstate, buf, parsed,
                   pc, req, target, checked, hi, dials, dialResult, targetIn,
                   resp, logFile, targetConn, c2t, exit>>

\* wg.Wait() lets the handler go on once both goroutines called wg.Done()
BothDone == c2t.pc = "done" /\ t2c.pc = "done"

\* Join without the defer targetConn.Close() of lines 91 and 141
JoinNoTargetClose ==
    /\ pc = "relay"
    /\ BothDone
    /\ clientConn' = Closed(clientConn)
    /\ pc' = "done"
    /\ exit' = "relay"
    /\ UNCHANGED <<side, input, csent, cnet, cstate, tsent, tnet, tstate, buf, parsed,
                   req, target, checked, hi, dials, dialResult, targetIn,
                   clientOut, resp, logFile, targetConn, c2t, t2c>>

\* Join with wg.Add(1): the handler goes on when the first goroutine is done
JoinAfterOne ==
    /\ pc = "relay"
    /\ c2t.pc = "done" \/ t2c.pc = "done"
    /\ targetConn' = Closed(targetConn)
    /\ clientConn' = Closed(clientConn)
    /\ pc' = "done"
    /\ exit' = "relay"
    /\ UNCHANGED <<side, input, csent, cnet, cstate, tsent, tnet, tstate, buf, parsed,
                   req, target, checked, hi, dials, dialResult, targetIn,
                   clientOut, resp, logFile, c2t, t2c>>

\* Join that waits for both copies to end by end-of-stream
JoinOnlyAfterEOF ==
    /\ pc = "relay"
    /\ BothDone
    /\ c2t.end = "eof" /\ t2c.end = "eof"
    /\ targetConn' = Closed(targetConn)
    /\ clientConn' = Closed(clientConn)
    /\ pc' = "done"
    /\ exit' = "relay"
    /\ UNCHANGED <<side, input, csent, cnet, cstate, tsent, tnet, tstate, buf, parsed,
                   req, target, checked, hi, dials, dialResult, targetIn,
                   clientOut, resp, logFile, c2t, t2c>>

\* Join with one more record after the relay
JoinLogsClose ==
    /\ pc = "relay"
    /\ BothDone
    /\ logFile' = Append(logFile,
          LogLine(ClientAddr, target[1], req.method, "OK",
                  <<"Connection closed">>))
    /\ targetConn' = Closed(targetConn)
    /\ clientConn' = Closed(clientConn)
    /\ pc' = "done"
    /\ exit' = "relay"
    /\ UNCHANGED <<side, input, csent, cnet, cstate, tsent, tnet, tstate, buf, parsed,
                   req, target, checked, hi, dials, dialResult, targetIn,
                   clientOut, resp, c2t, t2c>>

\* handler.go 127-128, 186-187: wg.Wait returns, the deferred Closes run
Join ==
    /\ pc = "relay"
    /\ BothDone
    /\ targetConn' = Closed(targetConn)
    /\ clientConn' = Closed(clientConn)
    /\ pc' = "done"
    /\ exit' = "relay"
    /\ UNCHANGED <<side, input, csent, cnet, cstate, tsent, tnet, tstate, buf, parsed,
                   req, target, checked, hi, dials, dialResult, targetIn,
                   clientOut, resp, logFile, c2t, t2c>>

Next ==
    \/ ClientSend \/ ClientCloseWrite \/ ClientReset
    \/ TargetSend \/ TargetCloseWrite \/ TargetReset
    \/ ReadRequestLine \/ ReadHeader \/ CheckBlocklist \/ Dial
    \/ WriteEstablished
    \/ WriteRequestLine \/ WriteHeader \/ WriteHeadersEnd
    \/ C2TRead \/ C2TWrite \/ T2CRead \/ T2CWrite
    \/ Join

Spec == Init /\ [][Next]_vars

(* HandleConnection takes any net.Conn.  A caller other than main.go may   *)
(* pass a clientConn that is not a *net.TCPConn; targetConn always comes   *)
(* from net.DialTimeout("tcp", ...).                                       *)
PlainConn == [OpenConn EXCEPT !.tcp = FALSE]

InitAnyConn ==
    /\ InitConn({h \o BodyBytes : h \in Heads}, {OpenConn, PlainConn})
    /\ SideIdle

SpecAnyConn == InitAnyConn /\ [][Next]_vars

(* The same handler, with two more requests among its inputs. *)
MoreHeads == Heads \cup {HeadTwoHosts, HeadConnectMixed}

InitMoreHeads ==
    /\ InitConn({h \o BodyBytes : h \in MoreHeads}, {OpenConn})
    /\ SideIdle

SpecMoreHeads == InitMoreHeads /\ [][Next]_vars

(***************************************************************************)
(* The relay under fair scheduling of its goroutines, with peers that may  *)
(* stop taking what the proxy writes to them.  A Write of io.Copy has no   *)
(* deadline: it blocks while the peer does not read and the connection     *)
(* stands.                                                                 *)
(***************************************************************************)
ClientStopsReading ==
    /\ pc = "relay"
    /\ creading
    /\ creading' = FALSE
    /\ UNCHANGED <<connVars, srv, fnIn, fnOut, writers, fileText, blocklist, treading>>

TargetStopsReading ==
    /\ pc = "relay"
    /\ treading
    /\ treading' = FALSE
    /\ UNCHANGED <<connVars, srv, fnIn, fnOut, writers, fileText, blocklist, creading>>

NextRelay == Next \/ ClientStopsReading \/ TargetStopsReading

InitRelay ==
    /\ InitConn({h \o BodyBytes : h \in {HeadConnect, HeadAbsolute}}, {OpenConn})
    /\ SideIdle

\* the Go scheduler runs every goroutine that can run: the two copies and
\* the handler waiting in wg.Wait
RelayFairness ==
    /\ WF_vars(C2TRead)
    /\ WF_vars(C2TWrite)
    /\ WF_vars(T2CRead)
    /\ WF_vars(T2CWrite)
    /\ WF_vars(Join)

SpecRelayFair == InitRelay /\ [][NextRelay]_vars /\ RelayFairness

(***************************************************************************)
(* The functions of handler.go applied on their own, to arguments drawn    *)
(* from bounded sets; no connection is handled meanwhile.                  *)
(***************************************************************************)
MaxHostLen == 4
MaxEntryLen == 2

StringsUpTo(alphabet, n) == UNION {[1..k -> alphabet] : k \in 0..n}

\* hosts as a client may send them: letters of either case, dots, colons
HostStrings == StringsUpTo({"a", "A", ".", ":"}, MaxHostLen)

\* blocklist entries as loadBlockedDomains stores them: not empty, lower case
EntryStrings == StringsUpTo({"a", ".", ":"}, MaxEntryLen) \ {<<>>}

NoConn == InitConn({HeadAbsolute}, {OpenConn})

InitIsBlocked ==
    /\ NoConn
    /\ fnIn \in [host : HostStrings, entry : EntryStrings]
    /\ fnOut = NoFn
    /\ writers = <<>>
    /\ fileText = <<>>
    /\ EnvInit
    /\ MainOff

ApplyIsBlocked ==
    /\ fnOut = NoFn
    /\ fnOut' = <<isBlocked(fnIn.host, {fnIn.entry})>>
    /\ UNCHANGED <<connVars, env, srv, fnIn, writers, fileText>>

SpecIsBlocked == InitIsBlocked /\ [][ApplyIsBlocked]_vars

PortStrings == {<<"8">>, <<"8", "0">>}

\* blocklists of lower-case entries: none, one, or "a" and one more
Blocklists ==
    {{}} \cup {{e} : e \in EntryStrings} \cup {{<<"a">>, e} : e \in EntryStrings}

InitIsBlockedPort ==
    /\ NoConn
    /\ fnIn \in [host : HostStrings, port : PortStrings, list : Blocklists]
    /\ fnOut = NoFn
    /\ writers = <<>>
    /\ fileText = <<>>
    /\ EnvInit
    /\ MainOff

\* isBlocked of the host, of the host in upper case, of the host with :port
ApplyIsBlockedPort ==
    /\ fnOut = NoFn
    /\ fnOut' = <<isBlocked(fnIn.host, fnIn.list),
                  isBlocked(ToUpper(fnIn.host), fnIn.list),
                  isBlocked(fnIn.host \o <<":">> \o fnIn.port, fnIn.list)>>
    /\ UNCHANGED <<connVars, env, srv, fnIn, writers, fileText>>

SpecIsBlockedPort == InitIsBlockedPort /\ [][ApplyIsBlockedPort]_vars

\* The arguments of the resolver and of cleanRequestURI, put together from
\* their parts: a scheme, a host, a port, a path, a query, a Host header.
SiteCom == <<"s", "i", "t", "e", ".", "c", "o", "m">>
AB == <<"a", ".", "b">>
Port8080 == <<"8", "0", "8", "0">>
GetMethod == <<"G", "E", "T">>
PathP == <<"/", "p">>
PathPQuery == <<"/", "p", "?", "q">>
PathWithScheme == <<"/", "h", "t", "t", "p", ":", "/", "/", "a", ".", "b">>

WithPort(host, port) ==
    IF port = <<>> THEN host ELSE host \o <<":">> \o port

\* form: "connect" (CONNECT host[:port]), "absolute" (GET scheme host[:port]
\* path), "origin" (GET path); the fields a form does not use are fixed
ResolveCases ==
    {c \in [form : {"connect", "absolute", "origin"},
            scheme : {HttpPrefix, HttpsPrefix},
            host : {SiteCom, AB},
            port : {<<>>, Port443, Port8080},
            path : {<<>>, PathP, PathPQuery},
            hhost : {<<>>, SiteCom},
            hport : {<<>>, Port8080}] :
        /\ c.hhost = <<>> => c.hport = <<>>
        /\ c.form = "connect" => c.scheme = HttpPrefix /\ c.path = <<>>
        /\ c.form = "origin" =>
              /\ c.scheme = HttpPrefix /\ c.host = SiteCom /\ c.port = <<>>
              /\ c.path # <<>>}

ResolveMethod(c) == IF c.form = "connect" THEN Connect ELSE GetMethod

ResolveURI(c) ==
    CASE c.form = "connect"  -> WithPort(c.host, c.port)
      [] c.form = "absolute" -> c.scheme \o WithPort(c.host, c.port) \o c.path
      [] c.form = "origin"   -> c.path

InitResolve ==
    /\ NoConn
    /\ fnIn \in ResolveCases
    /\ fnOut = NoFn
    /\ writers = <<>>
    /\ fileText = <<>>
    /\ EnvInit
    /\ MainOff

\* handler.go 54-64 on a request with this method, URI and Host header
ApplyResolve ==
    /\ fnOut = NoFn
    /\ fnOut' = <<ResolveTarget([NoReq EXCEPT
                     !.method = ResolveMethod(fnIn),
                     !.rawURI = ResolveURI(fnIn),
                     !.hostHeader = WithPort(fnIn.hhost, fnIn.hport)])>>
    /\ UNCHANGED <<connVars, env, srv, fnIn, writers, fileText>>

SpecResolve == InitResolve /\ [][ApplyResolve]_vars

\* what may follow the host: nothing, a colon alone, a port, a port that is
\* not a number
PortTails == {<<>>, <<":">>, <<":">> \o Port8080, <<":", "x">>}

RawAuthorities == {SiteCom \o t : t \in PortTails}

RawURIs ==
    RawAuthorities \cup {PathP}
    \cup {s \o a \o PathP : s \in {HttpPrefix, HttpsPrefix}, a \in RawAuthorities}

InitResolveRaw ==
    /\ NoConn
    /\ fnIn \in [method : {Connect, GetMethod}, rawURI : RawURIs,
                 hostHeader : {<<>>} \cup RawAuthorities]
    /\ fnOut = NoFn
    /\ writers = <<>>
    /\ fileText = <<>>
    /\ EnvInit
    /\ MainOff

\* handler.go 54-64 on a request with this method, URI and Host header
ApplyResolveRaw ==
    /\ fnOut = NoFn
    /\ fnOut' = <<ResolveTarget([NoReq EXCEPT
                     !.method = fnIn.method,
                     !.rawURI = fnIn.rawURI,
                     !.hostHeader = fnIn.hostHeader])>>
    /\ UNCHANGED <<connVars, env, srv, fnIn, writers, fileText>>

SpecResolveRaw == InitResolveRaw /\ [][ApplyResolveRaw]_vars

\* an absolute URI (the port may be malformed: "x"), or another request URI
CleanCases ==
    {c \in [form : {"absolute", "other"},
            scheme : {HttpPrefix, HttpsPrefix},
            host : {SiteCom, AB},
            port : {<<>>, Port8080, <<"x">>},
            path : {<<>>, <<"/">>, PathP, PathWithScheme},
            hasQuery : BOOLEAN,
            query : {<<>>, <<"q">>},
            other : {<<>>, <<"*">>, PathP, PathPQuery, WithPort(SiteCom, Port443)}] :
        /\ ~c.hasQuery => c.query = <<>>
        /\ c.form = "absolute" => c.other = <<>>
        /\ c.form = "other" =>
              /\ c.scheme = HttpPrefix /\ c.host = SiteCom /\ c.port = <<>>
              /\ c.path = <<>> /\ ~c.hasQuery}

CleanURI(c) ==
    IF c.form = "other" THEN c.other
    ELSE c.scheme \o WithPort(c.host, c.port) \o c.path
         \o (IF c.hasQuery THEN <<"?">> \o c.query ELSE <<>>)

InitClean ==
    /\ NoConn
    /\ fnIn \in CleanCases
    /\ fnOut = NoFn
    /\ writers = <<>>
    /\ fileText = <<>>
    /\ EnvInit
    /\ MainOff

\* cleanRequestURI of the URI, then cleanRequestURI of the result
ApplyClean ==
    /\ Len(fnOut) < 2
    /\ fnOut' = Append(fnOut, cleanRequestURI(IF fnOut = <<>> THEN CleanURI(fnIn)
                                              ELSE fnOut[1]))
    /\ UNCHANGED <<connVars, env, srv, fnIn, writers, fileText>>

SpecClean == InitClean /\ [][ApplyClean]_vars

(***************************************************************************)
(* Concurrent handlers logging to the file main.go opened with O_APPEND    *)
(* and handed to each of them.                                             *)
(***************************************************************************)
NumWriters == 3

Writers == 1..NumWriters

\* the records a handler may log: tunnel or request forwarded, blocked, failed
LogRecords ==
    {<<"ok.org", "CONNECT", "OK", "Tunnel established">>,
     <<"bad.com", "GET", "BLOCKED", "Domain is blocked">>,
     <<"", "", "ERROR", "Failed to read request">>}

\* fmt.Sprintf of lines 281-282, as the pieces of the format and its
\* arguments; the client address tells the handlers apart
LogText(w, rec) ==
    <<"[", "timestamp", "] Client: ", ToString(w), " | Host: ", rec[1],
      " | Method: ", rec[2], " | Status: ", rec[3], " | Details: ", rec[4],
      "\n">>

InitLog ==
    /\ NoConn
    /\ fnIn = NoFn
    /\ fnOut = NoFn
    /\ writers \in [Writers -> [pc : {"format"}, rec : LogRecords, line : {<<>>}]]
    /\ fileText = <<>>
    /\ EnvInit
    /\ MainOff

\* logConnection, lines 280-282: the line is built in memory
FormatLine(w) ==
    /\ writers[w].pc = "format"
    /\ writers' = [writers EXCEPT ![w].pc = "write",
                                  ![w].line = LogText(w, writers[w].rec)]
    /\ UNCHANGED <<connVars, env, srv, fnIn, fnOut, fileText>>

\* logConnection writing the line with two calls of WriteString
WriteStringInTwo(w) ==
    /\ writers[w].pc = "write"
    /\ LET line == writers[w].line
           n    == IF Len(line) > 6 THEN 6 ELSE Len(line)
       IN  /\ fileText' = fileText \o SubSeq(line, 1, n)
           /\ writers' = [writers EXCEPT
                             ![w].line = From(line, n + 1),
                             ![w].pc = IF n = Len(line) THEN "done" ELSE "write"]
    /\ UNCHANGED <<connVars, env, srv, fnIn, fnOut>>

\* logConnection, line 285: one logFile.WriteString(logLine); os.File holds
\* the file's write lock for the whole call and the file is in append mode
WriteString(w) ==
    /\ writers[w].pc = "write"
    /\ fileText' = fileText \o writers[w].line
    /\ writers' = [writers EXCEPT ![w].line = <<>>, ![w].pc = "done"]
    /\ UNCHANGED <<connVars, env, srv, fnIn, fnOut>>

NextLog == \E w \in Writers : FormatLine(w) \/ WriteString(w)

SpecLog == InitLog /\ [][NextLog]_vars

(***************************************************************************)
(* main: loadBlockedDomains, then the accept loop (main.go).               *)
(***************************************************************************)
\* number of lines of the blocked-domains file
MaxFileLines == 2
\* number of connections clients open
MaxConns == 2
\* number of times Accept fails
MaxAcceptErrors == 1

\* lines of a blocked-domains file: a domain, one in upper case with a
\* carriage return, one with blanks around it, an empty line, a line of
\* blanks, a comment, an indented comment
FileLines ==
    { <<"b", ".", "c">>, <<"A", "\r">>, <<" ", "a", ".", "B", "\t">>, <<>>,
      <<" ", " ">>, <<"#", "c">>, <<"\t", "#", "x">> }

\* sequences of at most n elements of S
RECURSIVE SeqsUpTo(_, _)
SeqsUpTo(S, n) ==
    IF n = 0 THEN {<<>>}
    ELSE LET shorter == SeqsUpTo(S, n - 1)
         IN  shorter \cup {Append(s, x) : s \in shorter, x \in S}

\* the text of a file with these lines; the last line may lack its line break
FileText(lines, lastBreak) ==
    IF lines = <<>> THEN <<>>
    ELSE StringsJoin(lines, "\n") \o (IF lastBreak THEN <<"\n">> ELSE <<>>)

BlockedFiles ==
    {FileText(ls, nl) : ls \in SeqsUpTo(FileLines, MaxFileLines), nl \in BOOLEAN}

\* a file as DESIGN.md describes it: a comment line and a domain per line
DefaultBlockedFile == FileText(<< <<"#", "c">>, <<"b", ".", "c">> >>, TRUE)

\* bufio.ScanLines: one trailing carriage return of a line is dropped
DropCR(line) ==
    IF line # <<>> /\ line[Len(line)] = "\r"
    THEN SubSeq(line, 1, Len(line) - 1)
    ELSE line

\* bufio.Scanner with ScanLines: the lines of the text without their line
\* breaks; what follows the last line break is a line unless it is empty
ScanLines(text) ==
    LET pieces == Split(text, "\n")
        kept   == IF pieces[Len(pieces)] = <<>>
                  THEN SubSeq(pieces, 1, Len(pieces) - 1)
                  ELSE pieces
    IN  [i \in 1..Len(kept) |-> DropCR(kept[i])]

\* how HandleConnection may return
ExitKinds == {"readfail", "malformed", "blocked", "dialfail", "writefail",
              "relay"}

\* main before loadBlockedDomains has read a line; no client can connect
\* until the listener is there
InitMainWith(files, conns) ==
    /\ NoConn
    /\ fnIn = NoFn
    /\ fnOut = NoFn
    /\ writers = <<>>
    /\ fileText = <<>>
    /\ blocklist = {}
    /\ creading = TRUE
    /\ treading = TRUE
    /\ mainPc = "load"
    /\ blockedFile \in files
    /\ scanPos = 0
    /\ arriving \in conns
    /\ backlog = <<>>
    /\ newConn = 0
    /\ accepted = <<>>
    /\ handlers = <<>>
    /\ acceptErrs = 0

\* ScanLine storing the line as it is read
ScanLineNoTrim ==
    /\ mainPc = "load"
    /\ scanPos < Len(ScanLines(blockedFile))
    /\ LET domain == ScanLines(blockedFile)[scanPos + 1]
       IN  blocklist' = IF domain # <<>> /\ ~HasPrefix(domain, <<"#">>)
                        THEN blocklist \cup {ToLower(domain)}
                        ELSE blocklist
    /\ scanPos' = scanPos + 1
    /\ UNCHANGED <<connVars, fnIn, fnOut, writers, fileText, creading, treading,
                   mainPc, blockedFile, arriving, backlog, newConn, accepted,
                   handlers, acceptErrs>>

\* main.go 93-98: one turn of the scanner loop
ScanLine ==
    /\ mainPc = "load"
    /\ scanPos < Len(ScanLines(blockedFile))
    /\ LET domain == TrimSpace(ScanLines(blockedFile)[scanPos + 1])
       IN  blocklist' = IF domain # <<>> /\ ~HasPrefix(domain, <<"#">>)
                        THEN blocklist \cup {ToLower(domain)}
                        ELSE blocklist
    /\ scanPos' = scanPos + 1
    /\ UNCHANGED <<connVars, fnIn, fnOut, writers, fileText, creading, treading,
                   mainPc, blockedFile, arriving, backlog, newConn, accepted,
                   handlers, acceptErrs>>

\* main.go 85-88, 100-102, 31-33: the file cannot be opened or read;
\* loadBlockedDomains returns nil and an error, main ends with log.Fatalf
LoadFails ==
    /\ mainPc = "load"
    /\ mainPc' = "fatal"
    /\ blocklist' = {}
    /\ UNCHANGED <<connVars, fnIn, fnOut, writers, fileText, creading, treading,
                   blockedFile, scanPos, arriving, backlog, newConn, accepted,
                   handlers, acceptErrs>>

\* main.go 104, 34-51: the scanner is at the end of the file, the map is
\* returned, the log file is opened and the listener started
Listen ==
    /\ mainPc = "load"
    /\ scanPos = Len(ScanLines(blockedFile))
    /\ mainPc' = "accept"
    /\ UNCHANGED <<connVars, fnIn, fnOut, writers, fileText, env, blockedFile,
                   scanPos, arriving, backlog, newConn, accepted, handlers,
                   acceptErrs>>

\* main.go 37-48: the log file cannot be opened or the port not be bound
ListenFails ==
    /\ mainPc = "load"
    /\ scanPos = Len(ScanLines(blockedFile))
    /\ mainPc' = "fatal"
    /\ UNCHANGED <<connVars, fnIn, fnOut, writers, fileText, env, blockedFile,
                   scanPos, arriving, backlog, newConn, accepted, handlers,
                   acceptErrs>>

\* a client connects to the listening port
ClientConnects ==
    /\ mainPc \in {"accept", "go"}
    /\ arriving # <<>>
    /\ backlog' = Append(backlog, Head(arriving))
    /\ arriving' = Tail(arriving)
    /\ UNCHANGED <<connVars, fnIn, fnOut, writers, fileText, env, mainPc,
                   blockedFile, scanPos, newConn, accepted, handlers,
                   acceptErrs>>

\* AcceptFails with break in place of continue
AcceptFailsBreak ==
    /\ mainPc = "accept"
    /\ acceptErrs < MaxAcceptErrors
    /\ acceptErrs' = acceptErrs + 1
    /\ mainPc' = "exit"
    /\ UNCHANGED <<connVars, fnIn, fnOut, writers, fileText, env, blockedFile,
                   scanPos, arriving, backlog, newConn, accepted, handlers>>

\* main.go 55-59: Accept returns an error (no descriptor left, say), the
\* loop logs it and continues; the waiting connections stay in the queue
AcceptFails ==
    /\ mainPc = "accept"
    /\ acceptErrs < MaxAcceptErrors
    /\ acceptErrs' = acceptErrs + 1
    /\ mainPc' = "accept"
    /\ UNCHANGED <<connVars, fnIn, fnOut, writers, fileText, env, blockedFile,
                   scanPos, arriving, backlog, newConn, accepted, handlers>>

\* main.go 55: Accept returns the connection at the head of the queue
Accept ==
    /\ mainPc = "accept"
    /\ backlog # <<>>
    /\ newConn' = Head(backlog)
    /\ backlog' = Tail(backlog)
    /\ accepted' = Append(accepted, Head(backlog))
    /\ mainPc' = "go"
    /\ UNCHANGED <<connVars, fnIn, fnOut, writers, fileText, env, blockedFile,
                   scanPos, arriving, handlers, acceptErrs>>

\* a goroutine running HandleConnection(c, list, logFile)
Handler(c, list) ==
    [conn |-> c, blocklist |-> list, state |-> "running", exit |-> "none"]

\* main.go 62: go proxy.HandleConnection(conn, blocklist, logFile)
GoHandleConnection ==
    /\ mainPc = "go"
    /\ handlers' = Append(handlers, Handler(newConn, blocklist))
    /\ newConn' = 0
    /\ mainPc' = "accept"
    /\ UNCHANGED <<connVars, fnIn, fnOut, writers, fileText, env, blockedFile,
                   scanPos, arriving, backlog, accepted, acceptErrs>>

\* HandleConnection returns in its goroutine, on any of its paths
HandlerReturns ==
    \E i \in DOMAIN handlers, how \in ExitKinds :
        /\ handlers[i].state = "running"
        /\ handlers' = [handlers EXCEPT ![i].state = "returned",
                                        ![i].exit = how]
        /\ UNCHANGED <<connVars, fnIn, fnOut, writers, fileText, env, mainPc,
                       blockedFile, scanPos, arriving, backlog, newConn,
                       accepted, acceptErrs>>

NextMain ==
    \/ ScanLine \/ LoadFails \/ Listen \/ ListenFails
    \/ ClientConnects \/ AcceptFails \/ Accept \/ GoHandleConnection
    \/ HandlerReturns

\* the connections clients open, by number
ConnIds == 1..MaxConns

AllConns == [i \in ConnIds |-> i]

\* the main goroutine is scheduled, and Accept returns when a connection
\* waits; nothing is assumed about the handlers
MainFairness ==
    /\ WF_vars(Accept)
    /\ WF_vars(GoHandleConnection)

\* main with the shipped file and MaxConns clients
SpecMain ==
    /\ InitMainWith({DefaultBlockedFile}, {AllConns})
    /\ [][NextMain]_vars
    /\ MainFairness

\* main with any of the files and one client
SpecLoad ==
    /\ InitMainWith(BlockedFiles, {<<1>>})
    /\ [][NextMain]_vars

(***************************************************************************)
(* Properties.                                                             *)
(***************************************************************************)
\* host is the domain d or a subdomain of it, letter case ignored
HostMatches(host, d) ==
    LET h == ToLower(host)
    IN  \/ h = d
        \/ /\ Len(h) > Len(d)
           /\ SubSeq(h, Len(h) - Len(d), Len(h)) = <<".">> \o d

\* the resolved target of the request is covered by the blocklist
TargetIsBlocked ==
    checked # "none" /\ \E d \in Blocklist : HostMatches(target[1], d)

\* what the client receives from sendError: the whole response, or nothing
\* when the connection had broken before the Write
ClientGotOnly(statusCode, statusText) ==
    \/ clientOut = ErrorResponse(statusCode, statusText)
    \/ clientOut = <<>> /\ cstate = "reset"

\* C1: a request whose resolved target host is matched by the blocklist gets
\* exactly one 403 response and one BLOCKED log record; nothing is dialled,
\* no byte goes to a target, and the handler has returned.
C1_BlockedRejected ==
    TargetIsBlocked =>
        /\ pc = "done"
        /\ exit = "blocked"
        /\ resp = <<"403">>
        /\ ClientGotOnly("403", "Forbidden")
        /\ dials = 0
        /\ tstate = "none"
        /\ targetIn = <<>>
        /\ Len(logFile) = 1
        /\ logFile[1].status = "BLOCKED"
        /\ logFile[1].host = target[1]
        /\ clientConn.closed

\* a blocked CONNECT was answered with the 403 response
C1_Witness ==
    /\ TargetIsBlocked
    /\ req.method = Connect
    /\ exit = "blocked"
    /\ clientOut = ErrorResponse("403", "Forbidden")

\* C2: the dial happens only after the blocklist check said "not blocked";
\* the 200 reply and every byte written to the target come only after a
\* successful dial; a rejected request is never forwarded in any part.
C2_CheckThenDialThenForward ==
    /\ dials > 0 => checked = "allowed"
    /\ dialResult # "none" => dials > 0
    /\ targetIn # <<>> => dialResult = "ok"
    /\ (\E i \in 1..Len(resp) : resp[i] = "200") => dialResult = "ok"
    /\ HasPrefix(clientOut, Established) => dialResult = "ok"
    /\ c2t.pc # "idle" \/ t2c.pc # "idle" => dialResult = "ok"
    /\ checked = "blocked" =>
          /\ dials = 0
          /\ targetIn = <<>>
          /\ ~HasPrefix(clientOut, Established)
          /\ c2t.pc = "idle" /\ t2c.pc = "idle"

\* a request went through check, dial and forwarding, in both modes' terms:
\* the request line has reached the target
C2_Witness ==
    /\ checked = "allowed"
    /\ dialResult = "ok"
    /\ targetIn = RequestLine(req)
    /\ pc = "fwdheaders"

\* C3: when HandleConnection has returned, on whatever path, the client
\* connection is closed, and so is the target connection if the dial opened
\* one.
C3_BothClosedOnReturn ==
    pc = "done" =>
        /\ exit \in {"readfail", "malformed", "blocked", "dialfail",
                     "writefail", "relay"}
        /\ clientConn.closed
        /\ dialResult = "ok" => targetConn.closed

\* the handler returned after a relay in which a direction failed, with a
\* target connection to close
C3_Witness ==
    /\ pc = "done"
    /\ exit = "relay"
    /\ c2t.end = "werr"
    /\ clientConn.closed
    /\ targetConn.closed

\* C4: once the relay has started, the handler returns and closes the two
\* connections only when both copy goroutines have finished, whichever ended
\* first and however each ended.
C4_ReturnAfterBothCopies ==
    (c2t.pc # "idle" \/ t2c.pc # "idle") =>
        /\ pc \in {"relay", "done"}
        /\ (pc = "done" \/ clientConn.closed \/ targetConn.closed) =>
              /\ c2t.pc = "done"
              /\ t2c.pc = "done"
              /\ exit = "relay"

\* the handler returned after the target -> client copy ended first by
\* end-of-stream and the client -> target copy later by a read error
C4_Witness ==
    /\ pc = "done"
    /\ exit = "relay"
    /\ t2c.end = "eof"
    /\ c2t.end = "rerr"
    /\ c2t.read # <<>>

\* the bytes the relay has written to the target: all of them in a tunnel,
\* those after the forwarded request head in HTTP mode
RelayedToTarget ==
    IF req.method = Connect THEN targetIn
    ELSE IF HasPrefix(targetIn, ForwardedHead(req))
         THEN From(targetIn, Len(ForwardedHead(req)) + 1)
         ELSE <<>>

\* the bytes the relay has written to the client: those after the 200 reply
\* in a tunnel, all of them in HTTP mode
RelayedToClient ==
    IF req.method = Connect
    THEN From(clientOut, Len(Established) + 1)
    ELSE clientOut

\* all the target has sent so far
TargetSent == SubSeq(RespBytes, 1, tsent)

RelayStarted == c2t.pc # "idle"

\* C5 as stated: when the target -> client copy has ended by the target's
\* end-of-stream, the whole response is at the client, and the
\* client -> target copy ends only by end-of-stream or an error of its own
\* source, the client.
C5_Original ==
    (RelayStarted /\ t2c.end = "eof") =>
        /\ RelayedToClient = TargetSent
        /\ c2t.pc = "done" => c2t.end \in {"eof", "rerr"}

\* C5, amended: a copy that ended by its source's end-of-stream has
\* delivered every byte the source sent; a copy ends only by end-of-stream
\* or a read error of its own source or by a failed write to its own
\* destination, never because the other copy ended; until then it runs on
\* connections that are still open.
C5_DirectionsEndIndependently ==
    RelayStarted =>
        /\ t2c.end = "eof" => RelayedToClient = TargetSent
        /\ c2t.end \in {"none", "eof", "rerr", "werr"}
        /\ t2c.end \in {"none", "eof", "rerr", "werr"}
        /\ c2t.end = "eof" => cstate \in {"eof", "reset"}
        /\ c2t.end = "rerr" => cstate = "reset"
        /\ c2t.end = "werr" => tstate = "reset"
        /\ t2c.end = "eof" => tstate \in {"eof", "reset"}
        /\ t2c.end = "rerr" => tstate = "reset"
        /\ t2c.end = "werr" => cstate = "reset"
        /\ (c2t.pc \in {"read", "write"} \/ t2c.pc \in {"read", "write"}) =>
              /\ pc = "relay"
              /\ ~clientConn.closed
              /\ ~targetConn.closed

\* the target has sent all of its response and ended its stream, the client
\* has it all, and the client -> target copy is still carrying a chunk of a
\* client that has more to send
C5_Witness ==
    /\ pc = "relay"
    /\ t2c.end = "eof"
    /\ tsent = Len(RespBytes)
    /\ RelayedToClient = RespBytes
    /\ c2t.pc = "write"
    /\ c2t.pending # <<>>
    /\ cstate = "open"
    /\ csent < Len(input)

\* the bytes the client has sent after the part the parser consumed as
\* request line and header block
PostHeaderSent == SubSeq(input, parsed + 1, csent)

\* C6: every byte the client sent after the header block is carried to the
\* target, in both modes: when the client -> target copy has ended by the
\* client's end-of-stream, the target has received all of them, whatever the
\* parser's read-ahead had taken into its buffer.
C6_NoPostHeaderByteDropped ==
    (RelayStarted /\ c2t.end = "eof") => RelayedToTarget = PostHeaderSent

\* the first line of the client's stream, line break included
FirstLine == SubSeq(input, 1, IndexByte(input, "\n"))

\* the parser has read a whole request line, and it has fewer than three
\* fields
MalformedLineRead ==
    /\ pc # "readline"
    /\ parsed >= Len(FirstLine)
    /\ Len(Fields(FirstLine)) < 3

\* C7: a request line with fewer than three fields gets exactly one 400
\* response and exactly one log record, tagged ERROR; no header is parsed,
\* the blocklist is not consulted, nothing is dialled and the client
\* connection is closed.
C7_MalformedRequestLine ==
    MalformedLineRead =>
        /\ pc = "done"
        /\ exit = "malformed"
        /\ resp = <<"400">>
        /\ ClientGotOnly("400", "Bad Request")
        /\ logFile = <<LogLine(ClientAddr, <<>>, <<>>, "ERROR",
                               <<"Invalid request line">>)>>
        /\ parsed = Len(FirstLine)
        /\ req = NoReq
        /\ checked = "none"
        /\ dials = 0
        /\ tstate = "none"
        /\ targetIn = <<>>
        /\ clientConn.closed

\* the two-field request line of the test script was answered with 400
C7_Witness ==
    /\ MalformedLineRead
    /\ Len(Fields(FirstLine)) = 2
    /\ clientOut = ErrorResponse("400", "Bad Request")
    /\ exit = "malformed"

\* the first ReadString ended before a line break: the stream was closed or
\* broke inside the request line
RequestLineCutShort ==
    /\ pc # "readline"
    /\ parsed < Len(FirstLine)

\* C8 as stated: when the stream ends or fails before a complete request
\* line has been read, the proxy responds 400, logs one ERROR record and
\* terminates the connection.
C8_Original ==
    RequestLineCutShort =>
        /\ pc = "done"
        /\ resp = <<"400">>
        /\ Len(logFile) = 1
        /\ logFile[1].status = "ERROR"
        /\ clientConn.closed

\* C8, amended: when the stream ends or fails before a complete request line
\* has been read, the proxy writes no response at all, logs one ERROR record
\* and closes the connection.
C8_ReadFailureNoResponse ==
    RequestLineCutShort =>
        /\ pc = "done"
        /\ exit = "readfail"
        /\ resp = <<>>
        /\ clientOut = <<>>
        /\ logFile = <<LogLine(ClientAddr, <<>>, <<>>, "ERROR",
                               <<"Failed to read request">>)>>
        /\ checked = "none"
        /\ dials = 0
        /\ clientConn.closed

\* the client ended its stream in the middle of the request line and could
\* still have received a response
C8_Witness ==
    /\ RequestLineCutShort
    /\ parsed > 0
    /\ cstate = "eof"
    /\ exit = "readfail"

\* C9: a failed dial is followed by exactly one 502 response and one ERROR
\* log record; the connection is dialled once, never again; no copy
\* goroutine is started and the handler returns.
C9_DialFailure ==
    /\ dials <= 1
    /\ dialResult = "fail" =>
          /\ pc = "done"
          /\ exit = "dialfail"
          /\ dials = 1
          /\ resp = <<"502">>
          /\ ClientGotOnly("502", "Bad Gateway")
          /\ Len(logFile) = 1
          /\ logFile[1].status = "ERROR"
          /\ logFile[1].host = target[1]
          /\ c2t = IdleTask
          /\ t2c = IdleTask
          /\ tstate = "none"
          /\ targetIn = <<>>
          /\ clientConn.closed

\* the dial of a tunnel failed and the client got the 502
C9_Witness ==
    /\ dialResult = "fail"
    /\ req.method = Connect
    /\ clientOut = ErrorResponse("502", "Bad Gateway")
    /\ exit = "dialfail"

\* C10: a copy that ends at its source's end-of-stream shuts down the write
\* side of its destination, after all it read has been written; no
\* connection is fully closed while the relay runs, and a write side is shut
\* down only by the copy that writes to it, when it is done.
C10_HalfCloseAfterDrain ==
    RelayStarted =>
        /\ pc = "relay" => ~clientConn.closed /\ ~targetConn.closed
        /\ c2t.end = "eof" =>
              /\ targetConn.wclosed
              /\ c2t.pending = <<>>
              /\ RelayedToTarget = c2t.read
        /\ t2c.end = "eof" =>
              /\ clientConn.wclosed
              /\ t2c.pending = <<>>
              /\ RelayedToClient = t2c.read
        /\ targetConn.wclosed => c2t.pc = "done"
        /\ clientConn.wclosed => t2c.pc = "done"
        /\ c2t.end # "closed" /\ t2c.end # "closed"

\* the client's write side was shut down after the target's end-of-stream,
\* with the response delivered, and the other direction still carries data
C10_Witness ==
    /\ pc = "relay"
    /\ t2c.end = "eof"
    /\ t2c.read = RespBytes
    /\ clientConn.wclosed
    /\ ~clientConn.closed
    /\ c2t.pc = "write"
    /\ c2t.pending # <<>>

\* The copy towards a destination without CloseWrite has ended on the end of
\* its source.
NoHalfCloseAtEOF ==
    /\ ~clientConn.tcp
    /\ t2c.pc = "done"
    /\ t2c.end = "eof"

HasSuffix(s, suffix) ==
    /\ Len(suffix) <= Len(s)
    /\ SubSeq(s, Len(s) - Len(suffix) + 1, Len(s)) = suffix

\* h is d or ends with "." followed by d
IsOrEndsWithDot(h, d) == h = d \/ HasSuffix(h, <<".">> \o d)

CountOf(s, c) == Cardinality({i \in 1..Len(s) : s[i] = c})

\* the host in lower case, without the :port a host with one colon ends with
Normalized(h) ==
    LET low == [i \in 1..Len(h) |-> ToLowerCh(h[i])]
    IN  IF CountOf(low, ":") = 1
        THEN SubSeq(low, 1, (CHOOSE i \in 1..Len(low) : low[i] = ":") - 1)
        ELSE low

\* C12 as stated: isBlocked(h, {d}) is true exactly when h is d or ends with
\* "." followed by d, for every host h and entry d.
C12_Original ==
    fnOut # NoFn =>
        (fnOut[1] <=> IsOrEndsWithDot(fnIn.host, fnIn.entry))

\* C12: isBlocked(h, {d}) is true exactly when h, put in lower case and
\* without its :port, is d or ends with "." followed by d.
C12_BlockedIffDomainOrSubdomain ==
    fnOut # NoFn =>
        (fnOut[1] <=> IsOrEndsWithDot(Normalized(fnIn.host), fnIn.entry))

C12_Witness ==
    /\ fnOut = <<TRUE>>
    /\ fnIn.host = <<"A", ".", "a", ":">>
    /\ fnIn.entry = <<"a">>

CRLF == <<"\r", "\n">>

\* the complete header lines at the front of s: up to a blank line or to a
\* line without its line feed
RECURSIVE HeaderLinesOf(_)
HeaderLinesOf(s) ==
    LET n == IndexByte(s, "\n")
    IN  IF n = 0 \/ SubSeq(s, 1, n) \in {CRLF, <<"\n">>} THEN <<>>
        ELSE SubSeq(s, 1, n) \o HeaderLinesOf(From(s, n + 1))

\* the header lines the parser has received from the client, as sent
ReceivedHeaders == HeaderLinesOf(SubSeq(input, Len(FirstLine) + 1, parsed))

AbsoluteURI ==
    <<"h", "t", "t", "p", ":", "/", "/", "o", "k", ".", "o", "r", "g", "/",
      "p", "?", "q">>

\* the relative form of the request URI of the inputs: path and query of
\* http://ok.org/p?q, an origin-form URI as it is
ExpectedURI ==
    LET uri == Fields(FirstLine)[2]
    IN  IF uri = AbsoluteURI THEN <<"/", "p", "?", "q">> ELSE uri

\* METHOD SP relative-URI SP version CRLF, header lines, blank line
ExpectedHead ==
    LET f == Fields(FirstLine)
    IN  ToUpper(f[1]) \o <<" ">> \o ExpectedURI \o <<" ">> \o f[3] \o CRLF
        \o ReceivedHeaders \o CRLF

HTTPModeDialled == req.method # Connect /\ dialResult = "ok"

CONNECTModeDialled == req.method = Connect /\ dialResult = "ok"

\* C14: in CONNECT mode after a successful dial the proxy writes the client
\* "HTTP/1.1 200 Connection Established" and a blank line once, ahead of
\* every byte relayed from the target, and nothing else of its own: the
\* client is written that reply followed by bytes the target sent, or nothing
\* at all when the write of the reply failed.
C14_EstablishedOnceThenRelay ==
    CONNECTModeDialled =>
        IF pc = "established" THEN clientOut = <<>> /\ resp = <<>>
        ELSE /\ resp = <<"200">>
             /\ IF exit = "writefail" THEN clientOut = <<>>
                ELSE /\ clientOut # <<>>
                     /\ clientOut[1] = "HTTP/1.1 200 Connection Established\r\n\r\n"
                     /\ HasPrefix(TargetSent, Tail(clientOut))

C14_Witness ==
    /\ CONNECTModeDialled
    /\ Len(clientOut) = 1 + MaxResp
    /\ pc = "done"

OKLogged == \E i \in 1..Len(logFile) : logFile[i].status = "OK"

C20_OKLoggedBetweenWriteAndRelay ==
    /\ RelayStarted => OKLogged
    /\ OKLogged =>
          /\ dialResult = "ok"
          /\ Len(logFile) = 1
          /\ IF req.method = Connect
             THEN /\ clientOut # <<>>
                  /\ clientOut[1] = "HTTP/1.1 200 Connection Established\r\n\r\n"
             ELSE /\ HasPrefix(targetIn, SubSeq(ExpectedHead, 1,
                                  Len(ExpectedHead) - Len(ReceivedHeaders) - 2))
                  /\ tstate # "reset" => HasPrefix(targetIn, ExpectedHead)
                  /\ logFile[1].details = ExpectedURI

C20_Witness ==
    /\ OKLogged
    /\ HasPrefix(input, HeadAbsolute)
    /\ logFile[1].details = <<"/", "p", "?", "q">>
    /\ c2t.pc = "read" /\ c2t.read = <<>>
    /\ t2c.pc = "read" /\ t2c.read = <<>>

\* the target the parts of the request name: the URI's host and port for
\* CONNECT and for an absolute URI, the Host header's otherwise, with the
\* default port of the case
ExpectedTarget(c) ==
    CASE c.form = "connect" ->
            <<c.host, IF c.port = <<>> THEN Port443 ELSE c.port>>
      [] c.form = "absolute" ->
            <<c.host, IF c.port # <<>> THEN c.port
                      ELSE IF c.scheme = HttpsPrefix THEN Port443 ELSE Port80>>
      [] c.form = "origin" ->
            <<c.hhost, IF c.hport = <<>> THEN Port80 ELSE c.hport>>

\* C15: the resolver returns the host and port of a CONNECT target (443
\* without a port), of an absolute http or https URI (80 or 443 without a
\* port) whatever the Host header says, and else of the Host header (80
\* without a port), which is ("", "80") without a Host header.
C15_ResolvedTarget ==
    fnOut # NoFn => fnOut[1] = ExpectedTarget(fnIn)

C15_Witness ==
    /\ fnOut = << <<AB, Port80>> >>
    /\ fnIn.form = "absolute"
    /\ fnIn.hhost = SiteCom
    /\ fnIn.hport = Port8080

\* the relative form of an absolute URI with a well-formed port
ExpectedRelative(c) ==
    (IF c.path = <<>> THEN <<"/">> ELSE c.path)
    \o (IF c.query # <<>> THEN <<"?">> \o c.query ELSE <<>>)

\* C16: cleanRequestURI returns the path ("/" for an empty one) and "?query"
\* of an absolute http or https URI and another URI unchanged, and applying
\* it to its own result changes nothing.
C16_CleanIdempotent ==
    /\ fnOut # NoFn =>
          /\ (fnIn.form = "absolute" /\ fnIn.port # <<"x">>) =>
                fnOut[1] = ExpectedRelative(fnIn)
          /\ fnIn.form = "other" => fnOut[1] = fnIn.other
    /\ Len(fnOut) = 2 => fnOut[2] = fnOut[1]

C16_Witness ==
    /\ Len(fnOut) = 2
    /\ fnIn.form = "absolute"
    /\ fnIn.path = <<>>
    /\ fnIn.query = <<"q">>
    /\ fnOut[2] = <<"/", "?", "q">>

\* text is made of the whole lines of the handlers ws, one after another in
\* some order
RECURSIVE WholeLines(_, _)
WholeLines(text, ws) ==
    IF ws = {} THEN text = <<>>
    ELSE \E w \in ws :
            LET line == LogText(w, writers[w].rec)
            IN  /\ HasPrefix(text, line)
                /\ WholeLines(From(text, Len(line) + 1), ws \ {w})

\* C18: with several handlers logging at once, the log file holds each
\* record written so far as one complete line, the lines one after another:
\* no text of one record lies inside the text of another.
C18_LogLinesWhole ==
    WholeLines(fileText, {w \in DOMAIN writers : writers[w].pc = "done"})

C18_Witness ==
    /\ writers # <<>>
    /\ \A w \in Writers : writers[w].pc = "done"
    /\ HasPrefix(fileText, LogText(2, writers[2].rec))
    /\ writers[1].rec # writers[2].rec

Errored(task) == task.end \in {"rerr", "werr"}

\* what an ended direction leaves behind, the same for an error as for the
\* end of the stream: the task is done, the write side of its destination is
\* shut down, the client has no error response, the log has the OK record
\* alone, and the connections stay open for the other direction
EndedQuietly(task, dst, other) ==
    /\ task.pc = "done"
    /\ dst.wclosed
    /\ other.end # "closed"
    /\ other.pc # "done" => (~clientConn.closed /\ ~targetConn.closed /\ pc = "relay")
    /\ \A i \in 1..Len(resp) : resp[i] = "200"
    /\ Len(logFile) = 1 /\ logFile[1].status = "OK"
    /\ HasPrefix(TargetSent, RelayedToClient)

EmptyHostResolved == checked # "none" /\ target[1] = <<>>

\* C22: a request whose target host resolves to the empty string is not
\* rejected with 400 or 403 but goes on to the dial, and ends as a dial
\* failure: one 502 response and one ERROR record.
C22_EmptyHostEndsAsDialFailure ==
    EmptyHostResolved =>
        /\ checked = "allowed"
        /\ \A i \in 1..Len(resp) : resp[i] \notin {"400", "403"}
        /\ pc = "done" =>
              /\ exit = "dialfail"
              /\ resp = <<"502">>
              /\ Len(logFile) = 1 /\ logFile[1].status = "ERROR"

SameForAllThree == fnOut[1] = fnOut[2] /\ fnOut[1] = fnOut[3]

C24_PortNonEmptyNumeric ==
    fnOut # NoFn =>
        LET port == fnOut[1][2]
        IN  port # <<>> /\ \A i \in 1..Len(port) : port[i] \in Digits

\* the lines of text, each with its line feed
RECURSIVE SplitLines(_)
SplitLines(text) ==
    LET n == IndexByte(text, "\n")
    IN  IF n = 0 THEN <<>>
        ELSE <<SubSeq(text, 1, n)>> \o SplitLines(From(text, n + 1))

\* the name of the header line is Host, in any letter case
IsHostLine(line) ==
    /\ Len(line) >= 5
    /\ [i \in 1..5 |-> ToLowerCh(line[i])] = <<"h", "o", "s", "t", ":">>

\* the value of the last Host line among lines, without the white space
\* around it; empty without a Host line
LastHostValue(lines) ==
    LET hs == {i \in 1..Len(lines) : IsHostLine(lines[i])}
    IN  IF hs = {} THEN <<>>
        ELSE LET last == CHOOSE i \in hs : \A j \in hs : j <= i
             IN  TrimSpace(SubSeq(lines[last], 6, Len(lines[last])))

\* the request line was read and has its three fields
RequestLineRead ==
    /\ pc # "readline"
    /\ parsed >= Len(FirstLine)
    /\ Len(Fields(FirstLine)) >= 3

\* where the header block of the input ends: after its first empty line
HeadEnd == Len(input) - Len(BodyBytes)

\* C25: the header loop keeps every complete header line it has read, in
\* order, and the value of the last Host line (name in any letter case,
\* value in its own case); it reads nothing after the first empty line, and
\* a request whose headers end with the stream is processed, not rejected.
C25_HeaderLoop ==
    RequestLineRead =>
        /\ req.headers = SplitLines(ReceivedHeaders)
        /\ req.hostHeader = LastHostValue(SplitLines(ReceivedHeaders))
        /\ parsed <= HeadEnd
        /\ exit \notin {"readfail", "malformed"}
        /\ \A i \in 1..Len(resp) : resp[i] # "400"
        /\ pc \notin {"readline", "headers"} =>
              \/ parsed = HeadEnd
              \/ cstate # "open"

C25_Witness ==
    /\ RequestLineRead
    /\ HasPrefix(input, HeadTwoHosts)
    /\ Len(req.headers) = 2
    /\ req.hostHeader = <<"B", ".", "c">>
    /\ checked = "allowed"

\* the method of the request line is CONNECT, in any letter case
MethodIsConnect == ToUpper(Fields(FirstLine)[1]) = Connect

\* targetIn is a run of bytes the client sent after the header block
OnlyClientBytes ==
    \E k \in parsed..Len(input) :
        /\ k + Len(targetIn) <= Len(input)
        /\ targetIn = SubSeq(input, k + 1, k + Len(targetIn))

\* C26: after the blocklist check a request is handled by the tunnel exactly
\* if its method is CONNECT in any letter case, else by the HTTP forwarder.
\* The tunnel takes host and port from the URI as it stands, answers 200 and
\* sends the target nothing but bytes of the client; the forwarder never
\* answers 200 and sends the target the rewritten head first.
C26_DispatchByMethod ==
    (RequestLineRead /\ dialResult = "ok") =>
        IF MethodIsConnect
        THEN /\ pc \notin {"reqline", "fwdheaders"}
             /\ pc # "established" => resp = <<"200">>
             /\ target[1] \o <<":">> \o target[2] = Fields(FirstLine)[2]
             /\ OnlyClientBytes
        ELSE /\ pc # "established"
             /\ \A i \in 1..Len(resp) : resp[i] # "200"
             /\ HasPrefix(ExpectedHead \o From(input, parsed + 1), targetIn)
             /\ RelayStarted => targetIn # <<>> \/ tstate = "reset"

C26_Witness ==
    /\ HasPrefix(input, HeadConnectMixed)
    /\ pc = "relay"
    /\ clientOut = Established
    /\ targetIn # <<>>

\* the status tag of the log record that goes with an error response
TagOf(code) == IF code = "403" THEN "BLOCKED" ELSE "ERROR"

ErrorCodes == {"400", "403", "502"}

\* C27: an error response (400, 403, 502) is never written without its log
\* record on the same connection: ERROR for 400 and 502, BLOCKED for 403.
C27_ErrorResponseLogged ==
    \A i \in 1..Len(resp) :
        resp[i] \in ErrorCodes =>
            \E j \in 1..Len(logFile) : logFile[j].status = TagOf(resp[i])

C27_Witness ==
    /\ resp = <<"403">>
    /\ clientOut # <<>>
    /\ Len(logFile) = 1
    /\ logFile[1].status = "BLOCKED"

\* C28: no step of the handler changes the blocklist: isBlocked only reads
\* it, and nothing else in HandleConnection writes to it.
C28_BlocklistReadOnly == [][blocklist' = blocklist]_vars

C28_Witness ==
    /\ checked = "blocked"
    /\ blocklist = Blocklist
    /\ pc = "done"

\* C29: a connection gets at most one response the proxy made itself (400,
\* 403, 502 or 200 Connection Established), and no error response once the
\* relay runs: what the client is written is nothing, one error response,
\* or the 200 reply (of a tunnel) followed by bytes of the target.
C29_AtMostOneOwnResponse ==
    /\ Len(resp) <= 1
    /\ (\E i \in 1..Len(resp) : resp[i] \in ErrorCodes) =>
          /\ ~RelayStarted
          /\ clientOut \in {<<>>, ErrorResponse("400", "Bad Request"),
                            ErrorResponse("403", "Forbidden"),
                            ErrorResponse("502", "Bad Gateway")}
    /\ (\A i \in 1..Len(resp) : resp[i] \notin ErrorCodes) =>
          \/ HasPrefix(TargetSent, clientOut) /\ resp = <<>>
          \/ /\ resp = <<"200">>
             /\ HasPrefix(Established \o TargetSent, clientOut)

C29_Witness ==
    /\ resp = <<"200">>
    /\ pc = "done"
    /\ t2c.end = "werr"
    /\ Len(clientOut) > 1

\* the relay runs and both peers have ended their sending side
BothSendersEnded == RelayStarted /\ cstate # "open" /\ tstate # "open"

Returned == pc = "done" /\ clientConn.closed /\ targetConn.closed

\* C30 as stated: once the relay runs and both peers have ended their sending
\* side, HandleConnection eventually returns with both connections closed.
C30_Original == BothSendersEnded ~> Returned

\* C30: once the relay runs and both peers have ended their sending side,
\* both copies finish, the join completes and HandleConnection returns with
\* both connections closed, provided each peer keeps taking what the proxy
\* writes to it.
C30_RelayTerminates ==
    [](creading /\ treading) => (BothSendersEnded ~> Returned)

C30_Witness ==
    /\ Returned
    /\ exit = "relay"
    /\ c2t.end = "eof"
    /\ t2c.end = "rerr"
    /\ creading /\ treading

\* the bytes the client has sent that the parser did not consume, from
\* position from on
ClientSentFrom(from) == SubSeq(input, from, csent)

\* what the source of the client -> target copy has handed out is a run of
\* consecutive bytes of the client's stream, none of them consumed by the
\* parser: with the bufio reader as source (handleHTTP) the run starts at the
\* first byte after the header block
ReadFromClient(bytes) ==
    IF C2TUsesReader
    THEN HasPrefix(PostHeaderSent, bytes)
    ELSE \E from \in (parsed + 1)..(csent + 1) :
            HasPrefix(ClientSentFrom(from), bytes)

\* a copy has written all it has read except the chunk it still holds
WrittenAllButPending(task, written) ==
    /\ HasPrefix(task.read, written)
    /\ task.pc = "write" => task.read = written \o task.pending
    /\ task.pc # "write" => (task.end \in {"none", "eof", "rerr", "closed"}
                                => task.read = written)

\* C31: at every moment of the relay and in each direction, the bytes
\* written to the destination are a prefix of the bytes read from that
\* direction's source (all of them but the chunk in hand), and the bytes
\* read are bytes the peer sent, in the order it sent them: nothing is
\* reordered, duplicated, altered or injected.
C31_WrittenIsPrefixOfRead ==
    RelayStarted =>
        /\ WrittenAllButPending(c2t, RelayedToTarget)
        /\ WrittenAllButPending(t2c, RelayedToClient)
        /\ ReadFromClient(c2t.read)
        /\ HasPrefix(TargetSent, t2c.read)

\* both copies have written a first chunk and hold a second one
C31_Witness ==
    /\ pc = "relay"
    /\ RelayedToTarget # <<>>
    /\ c2t.pc = "write" /\ c2t.pending # <<>>
    /\ RelayedToClient # <<>>
    /\ t2c.pc = "write" /\ t2c.pending # <<>>

\* the dial succeeded and the handler is past its first write
FirstWriteAttempted ==
    dialResult = "ok" /\ pc \notin {"established", "reqline"}

\* the first write after the dial failed: its bytes are not on the wire
FirstWriteFailed ==
    /\ FirstWriteAttempted
    /\ IF req.method = Connect THEN clientOut = <<>> ELSE targetIn = <<>>

\* C32: when the first write after a successful dial fails (the request line
\* to the target in HTTP mode, the 200 to the client in a tunnel), the
\* handler writes exactly one log record, tagged ERROR, starts no copy and
\* returns with both connections closed; in HTTP mode it calls sendError(502)
\* once, in a tunnel it sends no error response.  On no other path does a
\* handler return after a successful dial without having run the relay.
C32_FirstWriteFailure ==
    /\ FirstWriteFailed =>
          /\ pc = "done"
          /\ exit = "writefail"
          /\ Len(logFile) = 1
          /\ logFile[1].status = "ERROR"
          /\ logFile[1].host = target[1]
          /\ ~OKLogged
          /\ c2t = IdleTask
          /\ t2c = IdleTask
          /\ clientConn.closed
          /\ targetConn.closed
          /\ dials = 1
          /\ IF req.method = Connect
             THEN resp = <<"200">>
             ELSE /\ resp = <<"502">>
                  /\ clientOut \in {<<>>, ErrorResponse("502", "Bad Gateway")}
    /\ exit = "writefail" => FirstWriteFailed
    /\ (dialResult = "ok" /\ pc = "done") => exit \in {"writefail", "relay"}

\* the target broke between the dial and the request line, and the client
\* has the 502
C32_Witness ==
    /\ exit = "writefail"
    /\ req.method # Connect
    /\ dialResult = "ok"
    /\ tstate = "reset"
    /\ targetIn = <<>>
    /\ clientOut = ErrorResponse("502", "Bad Gateway")
    /\ Len(logFile) = 1

\* the connections the HandleConnection goroutines were started with
HandledConns == [i \in DOMAIN handlers |-> handlers[i].conn]

\* connection c waits in the listener's queue
Waiting(c) == \E i \in DOMAIN backlog : backlog[i] = c

\* a HandleConnection goroutine was started with connection c
Handled(c) == \E i \in DOMAIN handlers : handlers[i].conn = c

\* the listener is there: a client got through, or Accept was called
Serving ==
    backlog # <<>> \/ accepted # <<>> \/ acceptErrs > 0 \/ handlers # <<>>

\* every connection Accept returned has one HandleConnection goroutine,
\* started in the order of acceptance, but for the one the loop is about to
\* hand over; no connection has two; the loop is at Accept or at the go
\* statement whatever the handlers did and however often Accept failed
EachAcceptedHandledOnce ==
    /\ accepted = HandledConns \o (IF mainPc = "go" THEN <<newConn>> ELSE <<>>)
    /\ \A i, j \in DOMAIN handlers :
          i # j => handlers[i].conn # handlers[j].conn
    /\ mainPc = "accept" => newConn = 0
    /\ Serving => mainPc \in {"accept", "go"}

\* C33: the accept loop hands every accepted connection to exactly one
\* HandleConnection goroutine, and it keeps accepting: a connection that
\* waits in the listener's queue is eventually handed to a goroutine, after
\* accept errors and whether or how the earlier handlers have ended.
C33_AcceptLoop ==
    /\ []EachAcceptedHandledOnce
    /\ \A c \in ConnIds : Waiting(c) ~> Handled(c)

\* Accept failed, then two connections were handed over; the handler of the
\* first returned after a failed dial, the one of the second still runs
C33_Witness ==
    /\ mainPc = "accept"
    /\ acceptErrs = MaxAcceptErrors
    /\ accepted = <<1, 2>>
    /\ HandledConns = <<1, 2>>
    /\ handlers[1].state = "returned"
    /\ handlers[1].exit = "dialfail"
    /\ handlers[2].state = "running"

\* the line holds nothing but white space
IsBlankLine(line) == \A i \in 1..Len(line) : line[i] \in WhiteSpace

\* the first character of the line that is not white space is '#'
IsCommentLine(line) ==
    \E i \in 1..Len(line) :
        /\ line[i] = "#"
        /\ \A j \in 1..(i - 1) : line[j] \in WhiteSpace

\* the lines of the file, as the text between its line breaks
LinesOf(text) == LET pieces == Split(text, "\n")
                 IN  {pieces[i] : i \in DOMAIN pieces}

\* the domains the file lists
ListedDomains(text) ==
    {ToLower(TrimSpace(l)) :
        l \in {x \in LinesOf(text) : ~IsBlankLine(x) /\ ~IsCommentLine(x)}}

\* not empty, no white space at either end, no upper-case letter, no '#'
\* in front
WellFormedEntry(e) ==
    /\ e # <<>>
    /\ e[1] \notin WhiteSpace
    /\ e[Len(e)] \notin WhiteSpace
    /\ \A i \in 1..Len(e) : \A k \in 1..26 : e[i] # UpperChars[k]
    /\ e[1] # "#"

\* C34: at every moment every entry of the set loadBlockedDomains builds is
\* a non-empty, trimmed, lower-case string that does not start with '#'
\* and comes from a line of the file that is neither empty nor a comment;
\* when the first connection is accepted the set is complete, and every
\* handler is started with the complete set.
C34_BlocklistEntries ==
    /\ \A e \in blocklist : WellFormedEntry(e) /\ e \in ListedDomains(blockedFile)
    /\ Serving =>
          /\ scanPos = Len(ScanLines(blockedFile))
          /\ blocklist = ListedDomains(blockedFile)
    /\ \A i \in DOMAIN handlers :
          handlers[i].blocklist = ListedDomains(blockedFile)

\* a file with an indented upper-case domain after a comment line, loaded,
\* and a handler started with the one-entry set
C34_Witness ==
    /\ blockedFile = FileText(<< <<"#", "c">>, <<" ", "a", ".", "B", "\t">> >>, FALSE)
    /\ handlers # <<>>
    /\ handlers[1].blocklist = {<<"a", ".", "b">>}
    /\ blocklist = {<<"a", ".", "b">>}

=============================================================================
